---- MODULE Spec2Model ----
(***************************************************************************)
(* A model of the eviolite evolutionary computation engine: the Cached     *)
(* fitness wrapper, the parallel evaluation pass, the selection utilities  *)
(* and the Evolution driver with its four algorithms.                      *)
(***************************************************************************)
EXTENDS Integers, Sequences, FiniteSets, TLC

\* ------------------------------------------------------------------ bounds
\* Solutions are the genomes 0..MaxGene.
MaxGene == 2
\* Number of Cached wrappers exercised through the wrapper API.
MaxCells == 2

\* Largest population handed to one parallel evaluation pass, and the most
\* threads sharing one Cached.
MaxTasks == 2
MaxThreads == 2

\* Largest pop_size and lambda of a configured algorithm, and the most
\* generations a run goes through.
MaxPopSize == 2
MaxLambda == 2
MaxGens == 2

\* Largest entry of a fitness vector and largest population handed directly
\* to the dominance and ranking functions.
MaxFit == 2
MaxRankPop == 3
\* Largest population handed to the NSGA-II selector.
MaxSelectPop == 3

\* Halls of fame: the largest entry of a recorded fitness vector, the
\* largest BestN::max, the longest generation recorded in one call and the
\* most solutions recorded over all calls.
MaxHofFit == 1
MaxBest == 3
MaxGeneration == 3
MaxRecorded == 6
\* BestPareto: the largest entry of a recorded fitness vector, the longest
\* generation recorded in one call and the most solutions recorded.
MaxParetoFit == 2
MaxParetoGeneration == 2
MaxParetoRecorded == 4

\* The reproducible generator has the states 0..MaxRng; EVIOLITE_SEED and
\* the seeds the OS hands out are 0..MaxSeed.
MaxRng == 7
MaxSeed == 3

\* Longest vector and longest index list handed to retain_indices.
MaxLen == 3
MaxIdx == 4
\* Largest population and largest number of rounds handed to a selector.
MaxPop == 3
MaxRounds == 2

VARIABLES
    population,   \* Vec<Cached<T>>: sequence of [inner, fitness]
    panicked,     \* TRUE once a panic has unwound the running call
    lastCall,     \* the wrapper API call that returned last
    phase,        \* "ready" before the call under study, "returned" after
    original,     \* the vector / population as it was when the call began
    vec,          \* retain_indices: the vector
    indices,      \* retain_indices: the index list passed in
    round_size,   \* Tournament::round_size
    n_rounds,     \* Tournament::select: n_rounds
    winners,      \* Tournament::select: the winners of the rounds
    tpc,          \* per task: where it is inside Cached::evaluate
    target,       \* per task: the position of the Cached it was handed
    new_fitness,  \* per task: the local new_fitness of Cached::evaluate
    retval,       \* per task: what its evaluate() returned
    evals,        \* per Cached: calls of the inner evaluate so far
    writes,       \* per Cached: completed writes of the slot so far
    touched,      \* per Cached: the tasks that read or wrote its slot
    raced,        \* TRUE once a slot access overlapped another task's write
    algorithm,    \* Evolution::algorithm: the configured Algorithm
    mode,         \* the run method called: "run_for" or "run_until"
    n_gens,       \* run_for: n_gens
    pc,           \* the statement of the run method the driver is at
    generation,   \* the run method's generation counter
    hall_of_fame, \* Evolution::hall_of_fame: the population states recorded
    stat,         \* the run method's local stat: the state it analyzed
    stats,        \* Evolution::stats
    trace,        \* the driver's calls so far, as <<call, generation>>
    held,         \* how many population states the driver has held so far
    input,        \* the call under study of a library function: its arguments
    output,       \* what that call returned, or that it panicked
    best_n,       \* a BestN hall of fame: [max, best]
    best_pareto,  \* a BestPareto hall of fame: [front]
    recorded,     \* every solution handed to the hall of fame so far
    env,          \* the environment variable EVIOLITE_SEED of the process
    rng,          \* THREAD_RNG_KEY of the driver thread: None until first use
    pending,      \* par_evaluate under way: the positions not yet evaluated
    run,          \* which of the two runs being compared is under way
    first         \* the Log the first of the two runs returned

cachedVars == <<lastCall>>
selectVars == <<phase, original, vec, indices, round_size, n_rounds, winners>>
parVars == <<tpc, target, new_fitness, retval, evals, writes, touched, raced>>
driverVars == <<algorithm, mode, n_gens, pc, generation, hall_of_fame, stat,
                stats, trace, held>>
reproVars == <<env, rng, pending, run, first>>
libVars == <<input, output, best_n, best_pareto, recorded, reproVars>>
notCached == <<selectVars, parVars, driverVars, libVars>>
notSelect == <<cachedVars, parVars, driverVars, libVars>>
vars == <<population, panicked, lastCall, phase, original, vec, indices,
          round_size, n_rounds, winners, tpc, target, new_fitness, retval,
          evals, writes, touched, raced, algorithm, mode, n_gens, pc,
          generation, hall_of_fame, stat, stats, trace, held, input, output,
          best_n, best_pareto, recorded, env, rng, pending, run, first>>

\* ------------------------------------------------------------ data model
Genes == 0..MaxGene

\* Option<T::Fitness>
None == <<>>
Some(f) == <<f>>
IsSome(o) == o # None
Unwrap(o) == o[1]

\* The user's Solution::evaluate: a pure function of the solution.  The
\* fitness is a MultiObjective<2>; genomes are laid out so that fitness
\* values dominate each other, tie in one objective, tie in the collapsed
\* value, and are incomparable.
Evaluate(g) == <<g % 2, g \div 2>>

\* From<MultiObjective<M>> for f64: the sum of the weighted entries.
Collapsed(f) == f[1] + f[2]

\* Cached::new / Cached::generate
CachedNew(g) == [inner |-> g, fitness |-> None]

\* Cached::evaluate (single caller): the slot after the call
CachedEvaluate(c) ==
    IF IsSome(c.fitness) THEN c
    ELSE [c EXCEPT !.fitness = Some(Evaluate(c.inner))]

\* the value Cached::evaluate returns
EvaluateResult(c) ==
    IF IsSome(c.fitness) THEN Unwrap(c.fitness) ELSE Evaluate(c.inner)

\* Cached::clear_cache
ClearCache(c) == [c EXCEPT !.fitness = None]

Mut_CachedMutate(c, g) == [c EXCEPT !.inner = g]
\* Cached::mutate: the inner mutate leaves some genome g, then clear_cache
CachedMutate(c, g) == ClearCache([c EXCEPT !.inner = g])

Mut_CachedClone(c) == [inner |-> c.inner, fitness |-> None]
\* Clone for Cached: copies the solution and the slot contents
CachedClone(c) == [inner |-> c.inner, fitness |-> c.fitness]

\* ----------------------------------------- values of the parts not running
NoCall == [op |-> "new", a |-> 0, b |-> 0, was |-> None, ret |-> None]

SelectIdle ==
    /\ phase = "idle"
    /\ original = <<>>
    /\ vec = <<>>
    /\ indices = <<>>
    /\ round_size = 0
    /\ n_rounds = 0
    /\ winners = <<>>

ParIdle ==
    /\ tpc = <<>>
    /\ target = <<>>
    /\ new_fitness = <<>>
    /\ retval = <<>>
    /\ evals = <<>>
    /\ writes = <<>>
    /\ touched = <<>>
    /\ raced = FALSE

NoAlgorithm == [kind |-> "none", pop_size |-> 0, lambda |-> 0, cxpb |-> 0,
                mutpb |-> 0, round_size |-> 0]

DriverIdle ==
    /\ algorithm = NoAlgorithm
    /\ mode = "none"
    /\ n_gens = 0
    /\ pc = "idle"
    /\ generation = 0
    /\ hall_of_fame = <<>>
    /\ stat = 0
    /\ stats = <<>>
    /\ trace = <<>>
    /\ held = 0

NoInput == [fn |-> "none"]
NoOutput == [done |-> FALSE, panic |-> FALSE, vec |-> <<>>]
\* the call has ended with outcome o
Done(o) == [done |-> TRUE, panic |-> o.panic, vec |-> o.vec]

ReproIdle ==
    /\ env = [parseable |-> FALSE, value |-> 0]
    /\ rng = None
    /\ pending = {}
    /\ run = 0
    /\ first = None

LibIdle ==
    /\ input = NoInput
    /\ output = NoOutput
    /\ best_n = [max |-> 0, best |-> <<>>]
    /\ best_pareto = [front |-> <<>>]
    /\ recorded = <<>>
    /\ ReproIdle

\* ------------------------------------------------- the wrapper API (C1)
InitCached ==
    /\ population \in [1..MaxCells -> {CachedNew(g) : g \in Genes}]
    /\ panicked = FALSE
    /\ lastCall = NoCall
    /\ SelectIdle
    /\ ParIdle
    /\ DriverIdle
    /\ LibIdle

ApiEvaluate(i) ==
    /\ population' = [population EXCEPT ![i] = CachedEvaluate(@)]
    /\ lastCall' = [op |-> "evaluate", a |-> i, b |-> 0,
                    was |-> population[i].fitness,
                    ret |-> Some(EvaluateResult(population[i]))]
    /\ UNCHANGED <<panicked, notCached>>

ApiMutate(i) ==
    /\ \E g \in Genes :
          population' = [population EXCEPT ![i] = CachedMutate(@, g)]
    /\ lastCall' = [op |-> "mutate", a |-> i, b |-> 0,
                    was |-> population[i].fitness, ret |-> None]
    /\ UNCHANGED <<panicked, notCached>>

\* Cached::crossover: T::crossover on both inners, then clear both caches
ApiCrossover(i, j) ==
    /\ i # j
    /\ \E ga \in Genes, gb \in Genes :
          population' = [population EXCEPT ![i] = CachedMutate(@, ga),
                                           ![j] = CachedMutate(@, gb)]
    /\ lastCall' = [op |-> "crossover", a |-> i, b |-> j,
                    was |-> population[i].fitness, ret |-> None]
    /\ UNCHANGED <<panicked, notCached>>

ApiClearCache(i) ==
    /\ population' = [population EXCEPT ![i] = ClearCache(@)]
    /\ lastCall' = [op |-> "clear_cache", a |-> i, b |-> 0,
                    was |-> population[i].fitness,
                    ret |-> population[i].fitness]
    /\ UNCHANGED <<panicked, notCached>>

\* population[j] = population[i].clone()
ApiClone(i, j) ==
    /\ i # j
    /\ population' = [population EXCEPT ![j] = CachedClone(population[i])]
    /\ lastCall' = [op |-> "clone", a |-> i, b |-> j,
                    was |-> population[i].fitness, ret |-> None]
    /\ UNCHANGED <<panicked, notCached>>

NextCached ==
    \/ \E i \in 1..MaxCells : ApiEvaluate(i)
    \/ \E i \in 1..MaxCells : ApiMutate(i)
    \/ \E i \in 1..MaxCells, j \in 1..MaxCells : ApiCrossover(i, j)
    \/ \E i \in 1..MaxCells : ApiClearCache(i)
    \/ \E i \in 1..MaxCells, j \in 1..MaxCells : ApiClone(i, j)

SpecCached == InitCached /\ [][NextCached]_vars

\* the slot is empty or holds inner.evaluate() of the current inner state
SlotConsistent(c) == c.fitness = None \/ c.fitness = Some(Evaluate(c.inner))

\* C1: through the wrapper API the fitness slot of every Cached is at all
\* times empty or equal to inner.evaluate() of the current inner state; it
\* is empty right after mutate and crossover (both operands) return, and
\* holds inner.evaluate() right after evaluate returns.
C1_CacheCoherent ==
    /\ \A i \in 1..Len(population) : SlotConsistent(population[i])
    /\ lastCall.op = "mutate" => population[lastCall.a].fitness = None
    /\ lastCall.op = "crossover" =>
          /\ population[lastCall.a].fitness = None
          /\ population[lastCall.b].fitness = None
    /\ lastCall.op = "evaluate" =>
          /\ population[lastCall.a].fitness
                = Some(Evaluate(population[lastCall.a].inner))
          /\ lastCall.ret = population[lastCall.a].fitness

\* a mutate has just emptied a slot that was filled
C1_Witness ==
    /\ lastCall.op = "mutate"
    /\ IsSome(lastCall.was)
    /\ population[lastCall.a].fitness = None

\* --------------------------------------------------------- retain_indices
\* Positions are 0-based as in the source; vec[p] is element p + 1 here.
Swap(v, a, b) == [v EXCEPT ![a + 1] = v[b + 1], ![b + 1] = v[a + 1]]

Mut_Truncate(v, n) == v
\* Vec::truncate
Truncate(v, n) == IF n < Len(v) THEN SubSeq(v, 1, n) ELSE v

Panic(v) == [panic |-> TRUE, vec |-> v]
Return(v) == [panic |-> FALSE, vec |-> v]

\* the while loop of retain_indices; i and swap_to as in the source
RECURSIVE RetainLoop(_, _, _, _)
RetainLoop(v, ind, swap_to, i) ==
    IF ~(i < Len(ind)) THEN Return(v)
    ELSE IF ind[i + 1] = ind[i]
    THEN RetainLoop(Append(v, v[swap_to]), Append(ind, Len(v)), swap_to, i + 1)
    ELSE IF ind[i + 1] < Len(v) /\ swap_to < Len(v)
    THEN RetainLoop(Swap(v, ind[i + 1], swap_to), ind, swap_to + 1, i + 1)
    ELSE Panic(v)

\* retain_indices(vec, indices): indices[0] and Vec::swap panic when the
\* position does not exist
RetainIndices(v, idx) ==
    LET n_indices == Len(idx)
        sorted == SortSeq(idx, LAMBDA a, b : a < b)
    IN  IF n_indices = 0 THEN Panic(v)
        ELSE IF ~(sorted[1] < Len(v)) THEN Panic(v)
        ELSE LET r == RetainLoop(Swap(v, sorted[1], 0), sorted, 1, 1)
             IN  IF r.panic THEN r ELSE Return(Truncate(r.vec, n_indices))

Elems == {"a", "b", "c"}

SeqsUpTo(S, n) == UNION {[1..k -> S] : k \in 0..n}

InitRetain ==
    /\ vec \in SeqsUpTo(Elems, MaxLen)
    /\ indices \in SeqsUpTo(0..(Len(vec) - 1), MaxIdx)
    /\ original = vec
    /\ phase = "ready"
    /\ panicked = FALSE
    /\ population = <<>>
    /\ round_size = 0
    /\ n_rounds = 0
    /\ winners = <<>>
    /\ lastCall = NoCall
    /\ ParIdle
    /\ DriverIdle
    /\ LibIdle

CallRetainIndices ==
    /\ phase = "ready"
    /\ LET r == RetainIndices(vec, indices)
       IN  /\ vec' = r.vec
           /\ panicked' = r.panic
    /\ phase' = "returned"
    /\ UNCHANGED <<population, original, indices, round_size, n_rounds,
                   winners, notSelect>>

NextRetain == CallRetainIndices

SpecRetain == InitRetain /\ [][NextRetain]_vars

Count(s, x) == Cardinality({k \in DOMAIN s : s[k] = x})

\* v, as a multiset, is [orig[i] for i in idx]
PickedMultiset(v, orig, idx) ==
    \A x \in Elems :
        Count(v, x) = Cardinality({k \in DOMAIN idx : orig[idx[k] + 1] = x})

\* C9: for every vector v and every index list of valid positions of any
\* length (zero included), retain_indices returns without panicking and
\* leaves v equal as a multiset to [v_original[i] for i in idx], of length
\* |idx|.
C9_RetainAnyLength ==
    phase = "returned" =>
        /\ ~panicked
        /\ Len(vec) = Len(indices)
        /\ PickedMultiset(vec, original, indices)

\* what the code does establish: the same for every non-empty index list
C9_RetainNonEmpty ==
    (phase = "returned" /\ indices # <<>>) =>
        /\ ~panicked
        /\ Len(vec) = Len(indices)
        /\ PickedMultiset(vec, original, indices)

\* a call with duplicated indices and more indices than elements returned
C9_WitnessNonEmpty ==
    /\ phase = "returned"
    /\ ~panicked
    /\ Len(indices) > Len(original)
    /\ \E j \in DOMAIN indices, k \in DOMAIN indices :
           j # k /\ indices[j] = indices[k]

\* -------------------------------------------------------------- Tournament
\* a population whose caches were filled by an evaluation pass
Evaluated(g) == [inner |-> g, fitness |-> Some(Evaluate(g))]

\* the closure Tournament::select hands to round_idx:
\* partial_cmp(a.evaluate().into(), b.evaluate().into()).is_gt()
CmpIsGt(a, b) == Collapsed(EvaluateResult(a)) > Collapsed(EvaluateResult(b))

\* rand::seq::index::sample(rng, length, amount): amount distinct positions
\* below length, in any order
Sample(length, amount) ==
    {p \in [1..amount -> 0..(length - 1)] :
        \A j \in 1..amount, k \in 1..amount : j # k => p[j] # p[k]}

\* the for loop of round_idx over the remaining participants
RECURSIVE RoundLoop(_, _, _, _)
RoundLoop(pop, participants, k, curr_max) ==
    IF k > Len(participants) THEN curr_max
    ELSE RoundLoop(pop, participants, k + 1,
                   IF CmpIsGt(pop[participants[k] + 1], pop[curr_max + 1])
                   THEN participants[k] ELSE curr_max)

\* Tournament::round_idx for one outcome of the sampling
RoundIdx(pop, participants) ==
    RoundLoop(pop, participants, 2, participants[1])

\* the indices a round can return
RoundWinners(pop, r) == {RoundIdx(pop, p) : p \in Sample(Len(pop), r)}

\* the winners lists the n_rounds rounds of Tournament::select can build
TournamentWinners(r, n, pop) == [1..n -> RoundWinners(pop, r)]

\* Tournament::select(n, pop): the possible outcomes; sample panics when it
\* is asked for more positions than there are
TournamentOutcomes(r, n, pop) ==
    IF r > Len(pop) THEN {Panic(pop)}
    ELSE {RetainIndices(pop, w) : w \in TournamentWinners(r, n, pop)}

InitTournament ==
    /\ population \in UNION {[1..n -> {Evaluated(g) : g \in Genes}]
                                : n \in 1..MaxPop}
    /\ round_size \in 1..Len(population)
    /\ n_rounds \in 0..MaxRounds
    /\ original = population
    /\ winners = <<>>
    /\ phase = "ready"
    /\ panicked = FALSE
    /\ vec = <<>>
    /\ indices = <<>>
    /\ lastCall = NoCall
    /\ ParIdle
    /\ DriverIdle
    /\ LibIdle

\* Tournament::select(n_rounds, pop)
TournamentSelect ==
    /\ phase = "ready"
    /\ \E w \in TournamentWinners(round_size, n_rounds, population) :
          LET r == RetainIndices(population, w)
          IN  /\ winners' = w
              /\ population' = r.vec
              /\ panicked' = r.panic
    /\ phase' = "returned"
    /\ UNCHANGED <<original, vec, indices, round_size, n_rounds, notSelect>>

NextTournament == TournamentSelect

SpecTournament == InitTournament /\ [][NextTournament]_vars

\* c has maximal collapsed fitness among some r pairwise distinct members
\* of pop, and is one of them
ArgmaxOfSomeRound(c, pop, r) ==
    \E S \in SUBSET (1..Len(pop)) :
        /\ Cardinality(S) = r
        /\ \E m \in S :
              /\ pop[m] = c
              /\ \A j \in S : Collapsed(Unwrap(pop[m].fitness))
                                 >= Collapsed(Unwrap(pop[j].fitness))

SelectedByTournament ==
    /\ ~panicked
    /\ Len(population) = n_rounds
    /\ \A i \in 1..Len(population) :
          ArgmaxOfSomeRound(population[i], original, round_size)

\* C10: for a Tournament with round_size r >= 1 and a population P with
\* |P| >= r whose caches are filled, select(k, P) leaves exactly k
\* solutions, each a copy of a member of P whose collapsed fitness is
\* maximal among some r pairwise distinct members of P.
C10_TournamentAnyK == phase = "returned" => SelectedByTournament

\* what the code does establish: the same for every k >= 1
C10_TournamentPositiveK ==
    (phase = "returned" /\ n_rounds >= 1) => SelectedByTournament

\* ------------------------------------------- Cached::evaluate, step by step
\* Cached::evaluate run by task t on the Cached at position target[t]:
\* read the slot; if it is empty call the inner evaluate, then write the
\* slot.  The slot is an UnsafeCell: its write is not atomic, so it is a
\* begin and an end, and an access that overlaps another task's write is a
\* data race.
CachedStates == {CachedNew(g) : g \in Genes} \cup {Evaluated(g) : g \in Genes}

SlotValues == {None} \cup {Some(Evaluate(g)) : g \in Genes}

OtherWriting(t) ==
    \E u \in DOMAIN tpc :
        u # t /\ target[u] = target[t] /\ tpc[u] = "writing"

\* `if let Some(fitness) = unsafe { *self.fitness.get() }`; a read that
\* races with a write may see any slot value
EvRead(t) ==
    /\ phase = "running"
    /\ tpc[t] = "start"
    /\ \E seen \in (IF OtherWriting(t) THEN SlotValues
                    ELSE {population[target[t]].fitness}) :
          IF IsSome(seen)
          THEN /\ tpc' = [tpc EXCEPT ![t] = "done"]
               /\ retval' = [retval EXCEPT ![t] = seen]
          ELSE /\ tpc' = [tpc EXCEPT ![t] = "compute"]
               /\ UNCHANGED retval
    /\ touched' = [touched EXCEPT ![target[t]] = @ \cup {t}]
    /\ raced' = (raced \/ OtherWriting(t))
    /\ UNCHANGED <<population, panicked, phase, original, new_fitness,
                   evals, writes, target, vec, indices, round_size, n_rounds,
                   winners, cachedVars, driverVars, libVars>>

\* `let new_fitness = self.inner.evaluate();`
EvCompute(t) ==
    /\ phase = "running"
    /\ tpc[t] = "compute"
    /\ new_fitness' = [new_fitness EXCEPT
                         ![t] = Some(Evaluate(population[target[t]].inner))]
    /\ evals' = [evals EXCEPT ![target[t]] = @ + 1]
    /\ tpc' = [tpc EXCEPT ![t] = "write"]
    /\ UNCHANGED <<population, panicked, phase, original, retval, writes,
                   touched, raced, target, vec, indices, round_size,
                   n_rounds, winners, cachedVars, driverVars, libVars>>

\* `*self.fitness.get() = Some(new_fitness);` begins
EvWriteBegin(t) ==
    /\ phase = "running"
    /\ tpc[t] = "write"
    /\ tpc' = [tpc EXCEPT ![t] = "writing"]
    /\ touched' = [touched EXCEPT ![target[t]] = @ \cup {t}]
    /\ raced' = (raced \/ OtherWriting(t))
    /\ UNCHANGED <<population, panicked, phase, original, new_fitness,
                   retval, evals, writes, target, vec, indices, round_size,
                   n_rounds, winners, cachedVars, driverVars, libVars>>

\* the write completes and evaluate returns new_fitness
EvWriteEnd(t) ==
    /\ phase = "running"
    /\ tpc[t] = "writing"
    /\ population' = [population EXCEPT
                        ![target[t]].fitness = new_fitness[t]]
    /\ writes' = [writes EXCEPT ![target[t]] = @ + 1]
    /\ retval' = [retval EXCEPT ![t] = new_fitness[t]]
    /\ tpc' = [tpc EXCEPT ![t] = "done"]
    /\ UNCHANGED <<panicked, phase, original, new_fitness, evals, touched,
                   raced, target, vec, indices, round_size, n_rounds,
                   winners, cachedVars, driverVars, libVars>>

\* every task has finished: the parallel call (or the join) returns
Barrier ==
    /\ phase = "running"
    /\ \A t \in DOMAIN tpc : tpc[t] = "done"
    /\ phase' = "returned"
    /\ UNCHANGED <<population, panicked, original, vec, indices, round_size,
                   n_rounds, winners, parVars, cachedVars, driverVars, libVars>>

NextEvaluate ==
    \/ \E t \in DOMAIN tpc : EvRead(t)
    \/ \E t \in DOMAIN tpc : EvCompute(t)
    \/ \E t \in DOMAIN tpc : EvWriteBegin(t)
    \/ \E t \in DOMAIN tpc : EvWriteEnd(t)
    \/ Barrier

TasksStart(targets) ==
    /\ target = targets
    /\ tpc = [t \in DOMAIN targets |-> "start"]
    /\ new_fitness = [t \in DOMAIN targets |-> None]
    /\ retval = [t \in DOMAIN targets |-> None]
    /\ evals = [c \in DOMAIN population |-> 0]
    /\ writes = [c \in DOMAIN population |-> 0]
    /\ touched = [c \in DOMAIN population |-> {}]
    /\ raced = FALSE
    /\ original = population
    /\ phase = "running"
    /\ panicked = FALSE
    /\ vec = <<>>
    /\ indices = <<>>
    /\ round_size = 0
    /\ n_rounds = 0
    /\ winners = <<>>
    /\ lastCall = NoCall
    /\ DriverIdle
    /\ LibIdle

\* ------------------------------------------------------------ par_evaluate
Mut_ParTargets(pop) == [i \in DOMAIN pop |-> 1]
\* pop.par_iter().for_each(|ind| { ind.evaluate(); }): the task of
\* position i is handed &pop[i]
ParTargets(pop) == [i \in DOMAIN pop |-> i]

InitPar ==
    /\ population \in UNION {[1..n -> CachedStates] : n \in 0..MaxTasks}
    /\ TasksStart(ParTargets(population))

SpecPar == InitPar /\ [][NextEvaluate]_vars

\* C7: par_evaluate runs one task per population index; in every
\* interleaving each slot is written by at most one task and never read or
\* written by a task of another index; par_evaluate returns only after all
\* tasks finished, and then every slot is filled; the inner evaluate ran
\* exactly once for each member whose slot was empty on entry and not at
\* all for the others.
C7_ParEvaluate ==
    /\ DOMAIN tpc = DOMAIN population
    /\ ~raced
    /\ \A c \in DOMAIN population :
          /\ touched[c] \subseteq {c}
          /\ writes[c] <= 1
          /\ evals[c] <= (IF original[c].fitness = None THEN 1 ELSE 0)
    /\ phase = "returned" =>
          /\ \A t \in DOMAIN tpc : tpc[t] = "done"
          /\ \A c \in DOMAIN population :
                /\ population[c].fitness = Some(Evaluate(population[c].inner))
                /\ population[c].inner = original[c].inner
                /\ evals[c] = (IF original[c].fitness = None THEN 1 ELSE 0)

\* a pass over a population with an empty and a filled slot has returned
C7_Witness ==
    /\ phase = "returned"
    /\ \E c \in DOMAIN original, d \in DOMAIN original :
          /\ original[c].fitness = None
          /\ original[d].fitness # None
          /\ evals[c] = 1
          /\ evals[d] = 0

\* ------------------------------------------- one Cached shared by threads
\* `unsafe impl Sync for Cached<T>`: several threads hold &Cached and call
\* evaluate() on it while its slot is empty
InitShared ==
    /\ population \in {<<CachedNew(g)>> : g \in Genes}
    /\ \E n \in 2..MaxThreads : TasksStart([t \in 1..n |-> 1])

SpecShared == InitShared /\ [][NextEvaluate]_vars

\* C8: for every interleaving of concurrent evaluate() calls on the same
\* Cached whose slot is empty, the inner evaluate is computed exactly once,
\* the slot is written exactly once, and no thread reads the slot while
\* another thread is writing it.
C8_InitializedOnce ==
    /\ ~raced
    /\ evals[1] <= 1
    /\ writes[1] <= 1
    /\ phase = "returned" => (evals[1] = 1 /\ writes[1] = 1)

\* ------------------------------------------------------- NSGA-II selection
\* MultiObjective<M> of the solutions modelled here
NumObjectives == 2
Objectives == 1..NumObjectives

\* Positions are 0-based as in the source.
At(s, p) == s[p + 1]

\* sort_unstable leaves the order of equal elements to the implementation:
\* a build keeps them in their current order or reverses them
TiePolicies == {"first", "last"}

\* 0.0 / 0.0 is a NaN whose sign depends on the target
NanSigns == {"pos", "neg"}

\* the order of the positions 1..Len(s) of s after sorting by Less
SortOrder(s, Less(_, _), policy) ==
    SortSeq([k \in 1..Len(s) |-> k],
            LAMBDA a, b : \/ Less(s[a], s[b])
                          \/ /\ ~Less(s[b], s[a])
                             /\ IF policy = "first" THEN a < b ELSE a > b)

SortBy(s, Less(_, _), policy) ==
    LET order == SortOrder(s, Less, policy)
    IN  [k \in 1..Len(s) |-> s[order[k]]]

Positions(n) == [k \in 1..n |-> k - 1]

\* cmp_dom_f64_slices: an entry of a that is not below b's counts for a
CmpDom(a, b) ==
    LET a_win == \E i \in Objectives : ~(b[i] > a[i])
        b_win == \E i \in Objectives : b[i] > a[i]
    IN  IF a_win /\ ~b_win THEN "AOverB"
        ELSE IF b_win /\ ~a_win THEN "BOverA"
        ELSE "Neither"

\* ParetoFronts::add_ranking on counts
AddRanking(counts, rank) ==
    IF rank < Len(counts) THEN [counts EXCEPT ![rank + 1] = @ + 1]
    ELSE counts \o [k \in 1..(rank - Len(counts)) |-> 0] \o <<1>>

\* the body of the main loop of rank_nondominated for s = q[j][i],
\* FindRank included
RankVisit(st, fits, s, j) ==
    IF s \in st.is_ranked
    THEN [st EXCEPT !.l[<<At(st.ranks, s), j>>] = @ \cup {s}]
    ELSE LET free == {k \in 0..(st.rank_count - 1) :
                        ~\E t \in st.l[<<k, j>>] :
                            CmpDom(At(fits, s), At(fits, t)) = "BOverA"}
             k == IF free # {}
                  THEN CHOOSE x \in free : \A y \in free : x <= y
                  ELSE st.rank_count
         IN  [st EXCEPT !.ranks[s + 1] = k,
                        !.counts = AddRanking(@, k),
                        !.l[<<k, j>>] = @ \cup {s},
                        !.is_ranked = @ \cup {s},
                        !.rank_count = IF free = {} THEN @ + 1 ELSE @]

RECURSIVE RankLoop(_, _, _, _, _)
RankLoop(st, fits, q, i, j) ==
    IF ~(i < Len(fits)) THEN st
    ELSE IF j > NumObjectives
    THEN IF Cardinality(st.is_ranked) = Len(fits) THEN st
         ELSE RankLoop(st, fits, q, i + 1, 1)
    ELSE RankLoop(RankVisit(st, fits, At(q[j], i), j), fits, q, i, j + 1)

\* rank_nondominated over the fitness values of a population: Best Order
\* Sort.  Result: [ranks, counts].
RankNondominated(fits, policy) ==
    LET popsize == Len(fits)
        q == [j \in Objectives |->
                SortBy(Positions(popsize),
                       LAMBDA a, b : At(fits, a)[j] > At(fits, b)[j], policy)]
        st == RankLoop([l |-> [x \in (0..(popsize - 1)) \X Objectives |-> {}],
                        is_ranked |-> {},
                        ranks |-> [k \in 1..popsize |-> 0],
                        counts |-> <<>>,
                        rank_count |-> 1],
                       fits, q, 0, 1)
    IN  [ranks |-> st.ranks, counts |-> st.counts]

\* f64 distances: finite (num over the common denominator of the front),
\* +infinity or NaN
Fin(n) == [kind |-> "fin", num |-> n]
Inf == [kind |-> "inf", num |-> 0]
NaN == [kind |-> "nan", num |-> 0]

\* d + c in f64
DistAdd(d, c) ==
    IF d.kind = "nan" \/ c.kind = "nan" THEN NaN
    ELSE IF d.kind = "inf" \/ c.kind = "inf" THEN Inf
    ELSE Fin(d.num + c.num)

\* f64::total_cmp(a, b) is Less
DistLess(a, b, nan_sign) ==
    LET key(d) == IF d.kind = "nan" THEN (IF nan_sign = "pos" THEN 3 ELSE 0)
                  ELSE IF d.kind = "inf" THEN 2 ELSE 1
    IN  \/ key(a) < key(b)
        \/ key(a) = 1 /\ key(b) = 1 /\ a.num < b.num

SetMax(S) == CHOOSE x \in S : \A y \in S : y <= x
SetMin(S) == CHOOSE x \in S : \A y \in S : x <= y

\* one pass of the loop over the objectives in sort_by_crowding_distance;
\* enum is front_enumerated: pairs <<i, front[i]>>
RECURSIVE CrowdingLoop(_, _, _, _, _, _)
CrowdingLoop(distances, enum, fits, m, policy, scale) ==
    IF m > NumObjectives THEN [distances |-> distances, enum |-> enum]
    ELSE
    LET fit(idx) == At(fits, idx)[m]
        sorted == SortBy(enum, LAMBDA a, b : fit(a[2]) < fit(b[2]), policy)
        frontsize == Len(sorted)
        fit_range == fit(sorted[frontsize][2]) - fit(sorted[1][2])
        ends == {sorted[1][1], sorted[frontsize][1]}
        \* (next_fit - prev_fit) / fit_range
        term(k) == IF fit_range = 0 THEN NaN
                   ELSE Fin((fit(sorted[k + 1][2]) - fit(sorted[k - 1][2]))
                               * scale[m])
        pos(i) == CHOOSE k \in 1..frontsize : sorted[k][1] = i
        next == [i \in DOMAIN distances |->
                    IF i \in ends THEN Inf
                    ELSE DistAdd(distances[i], term(pos(i)))]
    IN  CrowdingLoop(next, sorted, fits, m + 1, policy, scale)

\* the distances sort_by_crowding_distance has computed when its loop over
\* the objectives ends, with front_enumerated as that loop leaves it
CrowdingDistances(front, fits, policy) ==
    LET frontsize == Len(front)
        range(m) == SetMax({At(fits, front[k])[m] : k \in 1..frontsize})
                      - SetMin({At(fits, front[k])[m] : k \in 1..frontsize})
        \* finite terms are kept over the product of the objectives' ranges
        scale == [m \in Objectives |->
                    IF m = 1 THEN (IF range(2) = 0 THEN 1 ELSE range(2))
                    ELSE (IF range(1) = 0 THEN 1 ELSE range(1))]
    IN  CrowdingLoop([i \in 0..(frontsize - 1) |-> Fin(0)],
                     [k \in 1..frontsize |-> <<k - 1, front[k]>>],
                     fits, 1, policy, scale)

\* sort_by_crowding_distance(front, pop): the front reordered by
\* descending crowding distance
SortByCrowdingDistance(front, fits, policy, nan_sign) ==
    LET r == CrowdingDistances(front, fits, policy)
        final == SortBy(r.enum,
                        LAMBDA a, b : DistLess(r.distances[b[1]],
                                               r.distances[a[1]], nan_sign),
                        policy)
    IN  [k \in 1..Len(front) |-> final[k][2]]

\* the while loop of select_indices: the ranks that fit completely in n
RECURSIVE CompleteRanks(_, _, _, _)
CompleteRanks(counts, n, curr_rank, count_sum) ==
    IF ~(curr_rank < Len(counts))
    THEN [panic |-> TRUE, curr_rank |-> curr_rank, count_sum |-> count_sum]
    ELSE IF count_sum + At(counts, curr_rank) < n
    THEN CompleteRanks(counts, n, curr_rank + 1,
                       count_sum + At(counts, curr_rank))
    ELSE [panic |-> FALSE, curr_rank |-> curr_rank, count_sum |-> count_sum]

\* NSGA2::select_indices(n, pop).0 for one sort implementation
SelectIndices(n, fits, policy, nan_sign) ==
    LET pareto == RankNondominated(fits, policy)
        by_rank == SortBy(Positions(Len(fits)),
                          LAMBDA a, b : At(pareto.ranks, a) < At(pareto.ranks, b),
                          policy)
        c == CompleteRanks(pareto.counts, n, 0, 0)
    IN  IF c.panic THEN Panic(<<>>)
        ELSE LET selected == SubSeq(by_rank, 1, c.count_sum)
                 rest == SubSeq(by_rank, c.count_sum + 1, Len(by_rank))
                 front == Truncate(rest, At(pareto.counts, c.curr_rank))
                 sorted == SortByCrowdingDistance(front, fits, policy, nan_sign)
             IN  IF n - c.count_sum > Len(sorted) THEN Panic(<<>>)
                 ELSE Return(selected \o SubSeq(sorted, 1, n - c.count_sum))

\* the fitness values NSGA-II reads: pop[i].evaluate()
Fits(pop) == [k \in 1..Len(pop) |-> EvaluateResult(pop[k])]

\* select::NSGA2.select(k, pop): the possible outcomes
NSGA2Select(k, pop) ==
    {LET idx == SelectIndices(k, Fits(pop), policy, nan_sign)
     IN  IF idx.panic THEN Panic(pop) ELSE RetainIndices(pop, idx.vec)
        : policy \in TiePolicies, nan_sign \in NanSigns}

\* ------------------------------------------------------- variation kernels
\* Probabilities in percent.
Probabilities == {0, 50, 100}

Mut_Bernoulli(p) == BOOLEAN
\* rng.gen_bool(p)
Bernoulli(p) == IF p = 0 THEN {FALSE} ELSE IF p = 100 THEN {TRUE} ELSE BOOLEAN

\* what pop[i].mutate() and either operand of crossover can become
Varied(c) == {CachedMutate(c, g) : g \in Genes}

\* var_and from position i (0-based) on: the populations it can leave
RECURSIVE VarAndFrom(_, _, _, _)
VarAndFrom(pop, i, cxpb, mutpb) ==
    IF ~(i < Len(pop)) THEN {pop}
    ELSE
    LET crossed ==
            UNION {IF i # 0 /\ cx
                   THEN {[pop EXCEPT ![i] = a, ![i + 1] = b] :
                            a \in Varied(pop[i]), b \in Varied(pop[i + 1])}
                   ELSE {pop} : cx \in Bernoulli(cxpb)}
        mutated ==
            UNION {IF mu
                   THEN {[q EXCEPT ![i + 1] = a] : a \in Varied(q[i + 1])}
                   ELSE {q} : q \in crossed, mu \in Bernoulli(mutpb)}
    IN  UNION {VarAndFrom(q, i + 1, cxpb, mutpb) : q \in mutated}

\* var_and(pop, cxpb, mutpb)
VarAnd(pop, cxpb, mutpb) == VarAndFrom(pop, 0, cxpb, mutpb)

\* one iteration of gen_or: what it can push; it panics where an unwrap
\* meets a missing parent
Offspring(pop, cxpb, mutpb) ==
    LET clones == {CachedClone(pop[k]) : k \in 1..Len(pop)}
        cloned == {Return(<<c>>) : c \in clones}
        varied == {Return(<<v>>) : v \in UNION {Varied(c) : c \in clones}}
        by_crossover == IF cxpb = 0 THEN {}
                        ELSE IF Len(pop) < 2 THEN {Panic(<<>>)} ELSE varied
        by_mutation == IF mutpb = 0 \/ cxpb = 100 THEN {}
                       ELSE IF Len(pop) = 0 THEN {Panic(<<>>)} ELSE varied
        by_cloning == IF cxpb + mutpb >= 100 THEN {}
                      ELSE IF Len(pop) = 0 THEN {Panic(<<>>)} ELSE cloned
    IN  by_crossover \cup by_mutation \cup by_cloning

\* gen_or(pop, n_offspring, cxpb, mutpb): the possible outcomes
GenOr(pop, n_offspring, cxpb, mutpb) ==
    LET each == Offspring(pop, cxpb, mutpb)
        pushed == {o \in each : ~o.panic}
    IN  IF n_offspring = 0 THEN {Return(<<>>)}
        ELSE {Panic(<<>>) : o \in each \ pushed}
             \cup {Return([k \in 1..n_offspring |-> f[k].vec[1]]) :
                      f \in [1..n_offspring -> pushed]}

\* -------------------------------------------------------------- algorithms
\* par_evaluate as the driver sees it: every slot filled on return
Mut_ParEvaluate(pop) == pop
\* par_evaluate, as seen from the calling thread: every cache is filled
ParEvaluate(pop) == [k \in 1..Len(pop) |-> CachedEvaluate(pop[k])]

\* applies a selection or variation stage to every non-panicked outcome
Then(outcomes, Stage(_)) ==
    UNION {IF o.panic THEN {o} ELSE Stage(o.vec) : o \in outcomes}

\* Simple::step
StepSimple(a, pop) ==
    \* debug_assert_eq!(self.pop_size, population.len()) in a debug build
    (IF Len(pop) # a.pop_size THEN {Panic(pop)} ELSE {})
    \cup Then(TournamentOutcomes(a.round_size, a.pop_size, pop),
              LAMBDA sel : {Return(v) : v \in VarAnd(sel, a.cxpb, a.mutpb)})

\* MuPlusLambda::step
StepMuPlusLambda(a, pop) ==
    Then(GenOr(pop, a.lambda, a.cxpb, a.mutpb),
         LAMBDA off : TournamentOutcomes(a.round_size, a.pop_size,
                                         ParEvaluate(pop \o off)))

\* MuCommaLambda::step
StepMuCommaLambda(a, pop) ==
    Then(GenOr(pop, a.lambda, a.cxpb, a.mutpb),
         LAMBDA off : TournamentOutcomes(a.round_size, a.pop_size,
                                         ParEvaluate(off)))

\* NSGA2::step
StepNSGA2(a, pop) ==
    Then(GenOr(pop, a.pop_size, a.cxpb, a.mutpb),
         LAMBDA off : NSGA2Select(a.pop_size, ParEvaluate(pop \o off)))

\* ------------------------------------------------------ Evolution (driver)
ProbPairs == {pr \in Probabilities \X Probabilities : pr[1] + pr[2] <= 100}

Alg(kind, pop_size, lambda, pr, r) ==
    [kind |-> kind, pop_size |-> pop_size, lambda |-> lambda,
     cxpb |-> pr[1], mutpb |-> pr[2], round_size |-> r]

\* Simple::new(pop_size, cxpb, mutpb, Tournament::new(r))
SimpleAlgorithms ==
    UNION {{Alg("Simple", n, 0, pr, r) : pr \in ProbPairs, r \in 1..n}
              : n \in 2..MaxPopSize}

\* MuPlusLambda::new(mu, lambda, cxpb, mutpb, Tournament::new(r))
MuPlusLambdaAlgorithms ==
    UNION {{Alg("MuPlusLambda", mu, la, pr, r) :
               pr \in ProbPairs, r \in 1..(mu + la)}
              : mu \in 2..MaxPopSize, la \in 0..MaxLambda}

\* MuCommaLambda::new(mu, lambda, ..): panics unless mu <= lambda
MuCommaLambdaAlgorithms ==
    UNION {{Alg("MuCommaLambda", ml[1], ml[2], pr, r) :
               pr \in ProbPairs, r \in 1..ml[2]}
              : ml \in {x \in (2..MaxPopSize) \X (0..MaxLambda) : x[1] <= x[2]}}

\* NSGA2::new(pop_size, cxpb, mutpb)
NSGA2Algorithms ==
    {Alg("NSGA2", n, 0, pr, 0) : n \in 2..MaxPopSize, pr \in ProbPairs}

\* any other implementation of the Algorithm trait
CustomAlgorithms ==
    {Alg("Custom", n, 0, <<0, 0>>, 0) : n \in 0..MaxPopSize}

Algorithms ==
    SimpleAlgorithms \cup MuPlusLambdaAlgorithms \cup MuCommaLambdaAlgorithms
        \cup NSGA2Algorithms \cup CustomAlgorithms

\* Algorithm::pop_size
PopSize(a) == a.pop_size

\* Algorithm::step: the possible outcomes
Step(a, pop) ==
    CASE a.kind = "Simple" -> StepSimple(a, pop)
      [] a.kind = "MuPlusLambda" -> StepMuPlusLambda(a, pop)
      [] a.kind = "MuCommaLambda" -> StepMuCommaLambda(a, pop)
      [] a.kind = "NSGA2" -> StepNSGA2(a, pop)
      [] OTHER -> {Return(v) : v \in SeqsUpTo(CachedStates, MaxPopSize)}

Mut_ForContinues(g, n) == g <= n
\* `for generation in 0..n_gens`
ForContinues(g, n) == g < n

notDriver == <<cachedVars, selectVars, parVars, libVars>>

\* Evolution::new followed by run_for(n_gens) or run_until(predicate)
InitEvolution ==
    /\ algorithm \in Algorithms
    /\ mode \in {"run_for", "run_until"}
    /\ n_gens \in (IF mode = "run_for" THEN 0..MaxGens ELSE {0})
    /\ population \in [1..PopSize(algorithm) -> {CachedNew(g) : g \in Genes}]
    /\ pc = IF mode = "run_for" /\ ~ForContinues(0, n_gens)
            THEN "return" ELSE "par_evaluate"
    /\ generation = 0
    /\ hall_of_fame = <<>>
    /\ stat = 0
    /\ stats = <<>>
    /\ trace = <<>>
    /\ held = 1
    /\ panicked = FALSE
    /\ lastCall = NoCall
    /\ SelectIdle
    /\ ParIdle
    /\ LibIdle

Called(name) == Append(trace, <<name, generation>>)

\* par_evaluate(&self.population)
DoParEvaluate ==
    /\ pc = "par_evaluate" /\ ~panicked
    /\ population' = ParEvaluate(population)
    /\ trace' = Called("par_evaluate")
    /\ pc' = "record"
    /\ UNCHANGED <<panicked, algorithm, mode, n_gens, generation,
                   hall_of_fame, stat, stats, held, notDriver>>

\* self.hall_of_fame.record(&self.population)
DoRecord ==
    /\ pc = "record" /\ ~panicked
    /\ hall_of_fame' = Append(hall_of_fame, held)
    /\ trace' = Called("record")
    /\ pc' = "analyze"
    /\ UNCHANGED <<population, panicked, algorithm, mode, n_gens, generation,
                   stat, stats, held, notDriver>>

\* stat = Stat::analyze(&self.population)
DoAnalyze ==
    /\ pc = "analyze" /\ ~panicked
    /\ stat' = held
    /\ trace' = Called("analyze")
    /\ pc' = IF mode = "run_for" THEN "callback" ELSE "predicate"
    /\ UNCHANGED <<population, panicked, algorithm, mode, n_gens, generation,
                   hall_of_fame, stats, held, notDriver>>

\* `while !predicate(Generation {..})`: the user's predicate answers; the
\* model makes it answer true after MaxGens generations at the latest
DoPredicate ==
    /\ pc = "predicate" /\ ~panicked
    /\ \E answer \in BOOLEAN :
          /\ generation < MaxGens \/ answer
          /\ pc' = IF answer THEN "return" ELSE "callback"
    /\ trace' = Called("predicate")
    /\ UNCHANGED <<population, panicked, algorithm, mode, n_gens, generation,
                   hall_of_fame, stat, stats, held, notDriver>>

\* callback(Generation { gen: generation, .. })
DoCallback ==
    /\ pc = "callback" /\ ~panicked
    /\ trace' = Called("callback")
    /\ pc' = "push"
    /\ UNCHANGED <<population, panicked, algorithm, mode, n_gens, generation,
                   hall_of_fame, stat, stats, held, notDriver>>

Mut_Increment(g) == g
\* `generation += 1`
Increment(g) == g + 1

\* self.stats.push(stat); run_until_with then does `generation += 1`
DoPush ==
    /\ pc = "push" /\ ~panicked
    /\ stats' = Append(stats, stat)
    /\ trace' = Called("push")
    /\ generation' = IF mode = "run_until" THEN Increment(generation)
                     ELSE generation
    /\ pc' = "step"
    /\ UNCHANGED <<population, panicked, algorithm, mode, n_gens,
                   hall_of_fame, stat, held, notDriver>>

\* self.algorithm.step(&mut self.population); in run_for_with the for loop
\* then moves on to the next generation
DoStep ==
    /\ pc = "step" /\ ~panicked
    /\ \E o \in Step(algorithm, population) :
          /\ population' = o.vec
          /\ panicked' = o.panic
    /\ trace' = Called("step")
    /\ held' = held + 1
    /\ generation' = IF mode = "run_for" THEN generation + 1 ELSE generation
    /\ pc' = IF mode = "run_for" /\ ~ForContinues(generation + 1, n_gens)
             THEN "return" ELSE "par_evaluate"
    /\ UNCHANGED <<algorithm, mode, n_gens, hall_of_fame, stat, stats,
                   notDriver>>

\* Log { hall_of_fame, stats, final_population: self.population }
DoReturn ==
    /\ pc = "return" /\ ~panicked
    /\ pc' = "returned"
    /\ UNCHANGED <<population, panicked, algorithm, mode, n_gens, generation,
                   hall_of_fame, stat, stats, trace, held, notDriver>>

NextEvolution ==
    \/ DoParEvaluate
    \/ DoRecord
    \/ DoAnalyze
    \/ DoPredicate
    \/ DoCallback
    \/ DoPush
    \/ DoStep
    \/ DoReturn

SpecEvolution == InitEvolution /\ [][NextEvolution]_vars

AllFilled(pop) == \A i \in 1..Len(pop) : IsSome(pop[i].fitness)

\* C2: in run_for and run_until, at every call of HallOfFame::record and
\* GenerationStats::analyze (and every callback and predicate call) every
\* member of the population has a filled fitness cache, for every
\* algorithm and every number of generations.
C2_FilledWhenObserved ==
    pc \in {"record", "analyze", "callback", "predicate"} =>
        /\ AllFilled(population)
        /\ \A i \in 1..Len(population) : SlotConsistent(population[i])

\* the predicate is about to see a population that a step has varied
C2_Witness ==
    /\ pc = "predicate"
    /\ generation >= 1
    /\ Len(population) >= 2
    /\ AllFilled(population)

\* the calls of generation g of run_for, in order
GenerationCalls(g) ==
    <<<<"par_evaluate", g>>, <<"record", g>>, <<"analyze", g>>,
      <<"callback", g>>, <<"push", g>>, <<"step", g>>>>

RECURSIVE RunForTrace(_)
RunForTrace(n) ==
    IF n = 0 THEN <<>> ELSE RunForTrace(n - 1) \o GenerationCalls(n - 1)

IsPrefix(s, t) == Len(s) <= Len(t) /\ SubSeq(t, 1, Len(s)) = s

\* C3: run_for(n) performs exactly n generations 0..n-1; within generation
\* g the calls are par_evaluate, record, analyze, callback(gen = g), stats
\* push, step, and the step of g is over before the par_evaluate of g + 1
\* starts; on return the stats log has exactly n entries, in generation
\* order.
C3_RunForOrder ==
    mode = "run_for" =>
        /\ IsPrefix(trace, RunForTrace(n_gens))
        /\ pc = "returned" =>
              /\ trace = RunForTrace(n_gens)
              /\ stats = [k \in 1..n_gens |-> k]

\* a run_for over the most generations has returned
C3_Witness ==
    /\ mode = "run_for"
    /\ pc = "returned"
    /\ n_gens = MaxGens
    /\ Len(stats) = MaxGens

CallsOf(name) == {k \in 1..Len(trace) : trace[k][1] = name}

\* C4: in run_until every generation that is evaluated, recorded and
\* analyzed, the one on which the predicate returns true included, also
\* gets the callback and its stat pushed, so the returned stats log has
\* exactly one entry per HallOfFame::record call.
C4_RunUntilStatPerRecord ==
    (mode = "run_until" /\ pc = "returned") =>
        /\ Len(stats) = Len(hall_of_fame)
        /\ Cardinality(CallsOf("callback")) = Cardinality(CallsOf("record"))

\* what the code does: the generation that ends the run is recorded and
\* analyzed but gets no callback and no stats entry
C4_RunUntilLastDropped ==
    (mode = "run_until" /\ pc = "returned") =>
        /\ Len(stats) + 1 = Len(hall_of_fame)
        /\ Cardinality(CallsOf("callback")) + 1 = Cardinality(CallsOf("record"))

\* C5: for run_for and run_until, every population state the driver held
\* (the initial one and the one left by each step, the returned
\* final_population included) was passed to HallOfFame::record before the
\* Log is returned.
C5_EveryStateRecorded ==
    pc = "returned" =>
        \A k \in 1..held : \E j \in 1..Len(hall_of_fame) : hall_of_fame[j] = k

\* what the code does in run_until: every state held was recorded
C5_RunUntilRecorded ==
    (pc = "returned" /\ mode = "run_until") =>
        \A k \in 1..held : \E j \in 1..Len(hall_of_fame) : hall_of_fame[j] = k

\* C6: for Simple, MuPlusLambda, MuCommaLambda and NSGA2 (Tournament of
\* round_size r within the population it selects from, pop_size >= 2,
\* cxpb + mutpb <= 1) a step entered with pop_size() evaluated members
\* leaves pop_size() members, so the population has pop_size() members at
\* every record, analyze, callback and predicate call and in the Log.
C6_PopSizeKept ==
    algorithm.kind # "Custom" =>
        /\ ~panicked
        /\ Len(population) = PopSize(algorithm)

\* a step that had to select among parents and offspring has run
C6_Witness ==
    /\ algorithm.kind = "MuPlusLambda"
    /\ algorithm.lambda = MaxLambda
    /\ held >= 2
    /\ pc = "record"

\* ------------------------------------------- dominance and ranking (pure)
FitVectors == [Objectives -> 0..MaxFit]

\* a dominates b: nowhere worse and somewhere strictly better
Dominates(a, b) ==
    /\ \A m \in Objectives : a[m] >= b[m]
    /\ \E m \in Objectives : a[m] > b[m]

notLib == <<population, panicked, cachedVars, selectVars, parVars, driverVars,
            reproVars>>

NotRunning ==
    /\ population = <<>>
    /\ panicked = FALSE
    /\ lastCall = NoCall
    /\ SelectIdle
    /\ ParIdle
    /\ DriverIdle
    /\ ReproIdle

HofIdle ==
    /\ best_n = [max |-> 0, best |-> <<>>]
    /\ best_pareto = [front |-> <<>>]
    /\ recorded = <<>>

InitDominance ==
    /\ input \in
          {[fn |-> "cmp_dom", a |-> x, b |-> y] : x, y \in FitVectors}
          \cup {[fn |-> "rank_nondominated", pop |-> P, policy |-> tie] :
                   P \in SeqsUpTo(FitVectors, MaxRankPop), tie \in TiePolicies}
    /\ output = NoOutput
    /\ HofIdle
    /\ NotRunning

\* cmp_dom(&a, &b)
CallCmpDom ==
    /\ input.fn = "cmp_dom" /\ ~output.done
    /\ output' = Done(Return(CmpDom(input.a, input.b)))
    /\ UNCHANGED <<input, best_n, best_pareto, recorded, notLib>>

\* rank_nondominated(&pop)
CallRankNondominated ==
    /\ input.fn = "rank_nondominated" /\ ~output.done
    /\ output' = Done(Return(RankNondominated(input.pop, input.policy)))
    /\ UNCHANGED <<input, best_n, best_pareto, recorded, notLib>>

NextDominance ==
    \/ CallCmpDom
    \/ CallRankNondominated

SpecDominance == InitDominance /\ [][NextDominance]_vars

\* C11: for every population P, members equal in some objective included,
\* rank_nondominated(P).ranks[i] = 0 iff no member of P dominates P[i].
C11_RankZeroIffNondominated ==
    (input.fn = "rank_nondominated" /\ output.done) =>
        \A i \in 1..Len(input.pop) :
            output.vec.ranks[i] = 0
                <=> ~\E j \in 1..Len(input.pop) :
                        Dominates(input.pop[j], input.pop[i])

\* no two members of P agree in any objective
TieFree(P) ==
    \A i, j \in 1..Len(P) :
        i # j => \A m \in Objectives : P[i][m] # P[j][m]

\* what the code guarantees: rank 0 is the non-dominated set when no two
\* members of P agree in any objective
C11_RankZeroTieFree ==
    (input.fn = "rank_nondominated" /\ output.done /\ TieFree(input.pop)) =>
        \A i \in 1..Len(input.pop) :
            output.vec.ranks[i] = 0
                <=> ~\E j \in 1..Len(input.pop) :
                        Dominates(input.pop[j], input.pop[i])

\* C13: cmp_dom(a, b) is AOverB exactly when a dominates b, BOverA exactly
\* when b dominates a, and Neither otherwise; so cmp_dom(a, b) = AOverB iff
\* cmp_dom(b, a) = BOverA, and cmp_dom(a, a) = Neither.
C13_CmpDomIsDominance ==
    (input.fn = "cmp_dom" /\ output.done) =>
        /\ output.vec = "AOverB" <=> Dominates(input.a, input.b)
        /\ output.vec = "BOverA" <=> Dominates(input.b, input.a)
        /\ output.vec = "AOverB" <=> CmpDom(input.b, input.a) = "BOverA"
        /\ input.a = input.b => output.vec = "Neither"

\* what the code guarantees: cmp_dom is dominance when a and b differ in
\* every objective
C13_CmpDomTieFree ==
    (input.fn = "cmp_dom" /\ output.done
        /\ \A m \in Objectives : input.a[m] # input.b[m]) =>
        /\ output.vec = "AOverB" <=> Dominates(input.a, input.b)
        /\ output.vec = "BOverA" <=> Dominates(input.b, input.a)
        /\ output.vec = "AOverB" <=> CmpDom(input.b, input.a) = "BOverA"

\* ----------------------------------------------------- NSGA2::select (C12)
\* Cached<Foo> after evaluate: Foo's genome is its objective vector
Foo(f) == [inner |-> f, fitness |-> Some(f)]

InitNSGA2 ==
    /\ \E P \in SeqsUpTo(FitVectors, MaxSelectPop) :
          /\ P # <<>>
          /\ population = [i \in 1..Len(P) |-> Foo(P[i])]
          /\ input \in {[fn |-> "NSGA2::select", k |-> k, pop |-> population] :
                           k \in 1..Len(P)}
    /\ output = NoOutput
    /\ panicked = FALSE
    /\ HofIdle
    /\ lastCall = NoCall
    /\ SelectIdle
    /\ ParIdle
    /\ DriverIdle
    /\ ReproIdle

\* select::NSGA2.select(k, &mut pop); the build fixes how sort_unstable
\* orders equal keys and the sign of 0.0 / 0.0
CallNSGA2Select ==
    /\ input.fn = "NSGA2::select" /\ ~output.done
    /\ \E policy \in TiePolicies, nan_sign \in NanSigns :
          \E idx \in {SelectIndices(input.k, Fits(population), policy, nan_sign)} :
          \E res \in {IF idx.panic THEN Panic(population)
                      ELSE RetainIndices(population, idx.vec)} :
              /\ population' = res.vec
              /\ panicked' = res.panic
              /\ output' = Done([panic |-> res.panic,
                                 vec |-> [indices |-> idx.vec,
                                          policy |-> policy]])
    /\ UNCHANGED <<input, best_n, best_pareto, recorded, cachedVars,
                   selectVars, parVars, driverVars, reproVars>>

NextNSGA2 == CallNSGA2Select

SpecNSGA2 == InitNSGA2 /\ [][NextNSGA2]_vars

\* the non-dominated rank of member i of fits: the number of fronts that
\* have to be peeled off before i is non-dominated
RECURSIVE NondominatedRank(_, _)
NondominatedRank(fits, i) ==
    LET over == {j \in 1..Len(fits) : Dominates(fits[j], fits[i])}
    IN  IF over = {} THEN 0
        ELSE 1 + SetMax({NondominatedRank(fits, j) : j \in over})

\* the positions kept are pairwise distinct positions of the original and
\* the population left is the members at those positions
KeptDistinctMembers ==
    LET idx == output.vec.indices
    IN  /\ \A p, q \in 1..Len(idx) : p # q => idx[p] # idx[q]
        /\ \A p \in 1..Len(idx) : idx[p] \in 0..(Len(input.pop) - 1)
        /\ \A x \in {input.pop[i] : i \in 1..Len(input.pop)} :
              Count(population, x)
                  = Cardinality({p \in 1..Len(idx) : At(input.pop, idx[p]) = x})

\* C12: for every non-empty population P with filled caches and every k
\* with 1 <= k <= |P|, NSGA2 select(k, P) retains exactly k solutions, they
\* are k pairwise distinct members of the original P, and every retained
\* solution has non-dominated rank <= the rank of every discarded one.
C12_NSGA2SelectsBestRanks ==
    (input.fn = "NSGA2::select" /\ output.done) =>
        /\ ~panicked
        /\ Len(population) = input.k
        /\ KeptDistinctMembers
        /\ LET fits == Fits(input.pop)
               kept == {output.vec.indices[p] + 1 :
                            p \in 1..Len(output.vec.indices)}
           IN  \A i \in kept : \A j \in (1..Len(fits)) \ kept :
                   NondominatedRank(fits, i) <= NondominatedRank(fits, j)

\* what the code guarantees: k distinct members are kept, and none of them
\* has a larger rank than a discarded one in the ranking that
\* rank_nondominated computes
C12_NSGA2SelectsByComputedRank ==
    (input.fn = "NSGA2::select" /\ output.done) =>
        /\ ~panicked
        /\ Len(population) = input.k
        /\ KeptDistinctMembers
        /\ LET fits == Fits(input.pop)
               ranks == RankNondominated(fits, output.vec.policy).ranks
               kept == {output.vec.indices[p] + 1 :
                            p \in 1..Len(output.vec.indices)}
           IN  \A i \in kept : \A j \in (1..Len(fits)) \ kept :
                   ranks[i] <= ranks[j]

\* C12 restricted to populations in which no two members agree in any
\* objective
C12_NSGA2SelectsTieFree ==
    (input.fn = "NSGA2::select" /\ output.done /\ TieFree(Fits(input.pop))) =>
        /\ ~panicked
        /\ Len(population) = input.k
        /\ KeptDistinctMembers
        /\ LET fits == Fits(input.pop)
               kept == {output.vec.indices[p] + 1 :
                            p \in 1..Len(output.vec.indices)}
           IN  \A i \in kept : \A j \in (1..Len(fits)) \ kept :
                   NondominatedRank(fits, i) <= NondominatedRank(fits, j)

\* ------------------------------------------------------- hof::BestN (C14)
HofVectors == [Objectives -> 0..MaxHofFit]

\* the generations handed to record: evaluated solutions
Generations == SeqsUpTo({Foo(f) : f \in HofVectors}, MaxGeneration)

\* ind.evaluate().into()
Fit(ind) == Collapsed(EvaluateResult(ind))

\* Vec::insert(idx, x), idx 0-based
Insert(v, idx, x) == SubSeq(v, 1, idx) \o <<x>> \o SubSeq(v, idx + 1, Len(v))

Mut_FindIndex(best, ind) ==
    IF best = <<>> THEN Some(0) ELSE None
\* BestN::find_index
FindIndex(best, ind) ==
    LET fit == Fit(ind)
        hits == {i \in 0..(Len(best) - 2) :
                    fit > Fit(At(best, i + 1)) /\ fit < Fit(At(best, i))}
    IN  IF best = <<>> \/ fit > Fit(At(best, 0)) THEN Some(0)
        ELSE IF hits # {} THEN Some(SetMin(hits) + 1)
        ELSE None

\* the body of the for loop of BestN::record
RecordOne(max, best, ind) ==
    LET idx == FindIndex(best, ind)
    IN  IF IsSome(idx) THEN Insert(best, Unwrap(idx), CachedClone(ind))
        ELSE IF Len(best) < max THEN Append(best, CachedClone(ind))
        ELSE best

RECURSIVE RecordLoop(_, _, _, _)
RecordLoop(max, best, generation_, i) ==
    IF i > Len(generation_) THEN best
    ELSE RecordLoop(max, RecordOne(max, best, generation_[i]), generation_,
                    i + 1)

\* BestN::record
BestNRecord(h, generation_) ==
    [h EXCEPT !.best = Truncate(RecordLoop(h.max, h.best, generation_, 1),
                                h.max)]

\* BestN::all
BestNAll(h) == h.best

\* BestN::best
BestNBest(h) == IF h.best = <<>> THEN None ELSE Some(h.best[1])

\* BestN::new(max)
InitBestN ==
    /\ best_n \in {[max |-> m, best |-> <<>>] : m \in 0..MaxBest}
    /\ best_pareto = [front |-> <<>>]
    /\ recorded = <<>>
    /\ input = NoInput
    /\ output = NoOutput
    /\ NotRunning

\* hof.record(generation)
DoBestNRecord ==
    /\ \E g \in Generations :
          /\ Len(recorded) + Len(g) <= MaxRecorded
          /\ best_n' = BestNRecord(best_n, g)
          /\ recorded' = recorded \o g
          /\ input' = [fn |-> "BestN::record", generation |-> g]
    /\ UNCHANGED <<output, best_pareto, notLib>>

NextBestN == DoBestNRecord

SpecBestN == InitBestN /\ [][NextBestN]_vars

\* the fitness values of s, largest first
RECURSIVE SortedDesc(_)
SortedDesc(fs) ==
    IF fs = <<>> THEN <<>>
    ELSE LET k == CHOOSE i \in 1..Len(fs) : \A j \in 1..Len(fs) : fs[j] <= fs[i]
         IN  <<fs[k]>> \o SortedDesc(SubSeq(fs, 1, k - 1)
                                         \o SubSeq(fs, k + 1, Len(fs)))

FitsOf(s) == [i \in 1..Len(s) |-> Fit(s[i])]

Min(x, y) == IF x < y THEN x ELSE y

\* C14: after any sequence of record calls on a BestN created with max,
\* all() has length min(max, number of solutions recorded), is sorted by
\* non-increasing collapsed fitness, and its fitness values are exactly the
\* max largest fitness values, with multiplicity, of everything recorded.
C14_BestNKeepsTopMax ==
    LET all == BestNAll(best_n)
        n == Min(best_n.max, Len(recorded))
    IN  /\ Len(all) = n
        /\ \A i \in 1..(Len(all) - 1) : Fit(all[i]) >= Fit(all[i + 1])
        /\ FitsOf(all) = SubSeq(SortedDesc(FitsOf(recorded)), 1, n)

\* no two solutions recorded so far have the same collapsed fitness
DistinctFits(s) ==
    \A i, j \in 1..Len(s) : i # j => Fit(s[i]) # Fit(s[j])

\* what the code guarantees: the claim when all recorded solutions differ
\* in collapsed fitness
C14_BestNDistinctFits ==
    DistinctFits(recorded) =>
        LET all == BestNAll(best_n)
            n == Min(best_n.max, Len(recorded))
        IN  /\ Len(all) = n
            /\ \A i \in 1..(Len(all) - 1) : Fit(all[i]) >= Fit(all[i + 1])
            /\ FitsOf(all) = SubSeq(SortedDesc(FitsOf(recorded)), 1, n)

\* C15: for a BestN with max >= 1, best() is None iff no solution has been
\* recorded, and otherwise returns a solution whose collapsed fitness is
\* the maximum over everything recorded so far.
C15_BestIsMaximum ==
    best_n.max >= 1 =>
        /\ BestNBest(best_n) = None <=> recorded = <<>>
        /\ recorded # <<>> =>
              /\ \A i \in 1..Len(recorded) :
                    Fit(Unwrap(BestNBest(best_n))) >= Fit(recorded[i])
              /\ \E i \in 1..Len(recorded) :
                    Unwrap(BestNBest(best_n)) = recorded[i]

\* a later generation has replaced the best of an earlier one
C15_Witness ==
    /\ input.fn = "BestN::record"
    /\ best_n.max >= 2
    /\ Len(recorded) > Len(input.generation)
    /\ Len(input.generation) >= 1
    /\ Fit(Unwrap(BestNBest(best_n))) > Fit(recorded[1])
    /\ \E i \in 1..Len(input.generation) :
          Unwrap(BestNBest(best_n)) = input.generation[i]

\* -------------------------------------------------- hof::BestPareto (C16)
ParetoVectors == [Objectives -> 0..MaxParetoFit]

ParetoGenerations ==
    SeqsUpTo({Foo(f) : f \in ParetoVectors}, MaxParetoGeneration)

\* the members of s whose rank is 0, in order
RECURSIVE RankZero(_, _, _)
RankZero(s, ranks, i) ==
    IF i > Len(s) THEN <<>>
    ELSE (IF ranks[i] = 0 THEN <<s[i]>> ELSE <<>>) \o RankZero(s, ranks, i + 1)

Mut_BestParetoRecord(front, generation_, policy) ==
    Return(front \o generation_)
\* BestPareto::record: the outcome, with the front it leaves
BestParetoRecord(front, generation_, policy) ==
    LET pareto == RankNondominated(Fits(generation_), policy)
        pushed == front \o RankZero([i \in 1..Len(generation_) |->
                                         CachedClone(generation_[i])],
                                    pareto.ranks, 1)
        pareto2 == RankNondominated(Fits(pushed), policy)
        idx == RankZero(Positions(Len(pushed)), pareto2.ranks, 1)
    IN  RetainIndices(pushed, idx)

\* BestPareto::front
BestParetoFront(h) == h.front

\* BestPareto::new()
InitBestPareto ==
    /\ best_pareto = [front |-> <<>>]
    /\ best_n = [max |-> 0, best |-> <<>>]
    /\ recorded = <<>>
    /\ input = NoInput
    /\ output = NoOutput
    /\ NotRunning

\* hof.record(generation); input keeps the generation and the one recorded
\* by the call before, output the front that call before had left
DoBestParetoRecord ==
    /\ ~panicked
    /\ \E g \in ParetoGenerations, policy \in TiePolicies :
          LET o == BestParetoRecord(best_pareto.front, g, policy)
          IN  /\ Len(recorded) + Len(g) <= MaxParetoRecorded
              /\ best_pareto' = [front |-> o.vec]
              /\ panicked' = o.panic
              /\ recorded' = recorded \o g
              /\ input' = [fn |-> "BestPareto::record", generation |-> g,
                           before |-> IF input.fn = "none" THEN None
                                      ELSE Some(input.generation)]
              /\ output' = Done(Return(best_pareto.front))
    /\ UNCHANGED <<best_n, population, cachedVars, selectVars, parVars,
                   driverVars, reproVars>>

NextBestPareto == DoBestParetoRecord

SpecBestPareto == InitBestPareto /\ [][NextBestPareto]_vars

\* C16: after any sequence of BestPareto::record calls, no member of
\* front() is dominated by any solution ever recorded, and every recorded
\* solution that no recorded solution dominates has its fitness vector in
\* front().
C16_FrontIsGlobalPareto ==
    LET front == BestParetoFront(best_pareto)
        ever == Fits(recorded)
    IN  /\ ~panicked
        /\ \A i \in 1..Len(front) : ~\E j \in 1..Len(ever) :
              Dominates(ever[j], Fits(front)[i])
        /\ \A j \in 1..Len(ever) :
              (~\E k \in 1..Len(ever) : Dominates(ever[k], ever[j]))
                  => \E i \in 1..Len(front) : Fits(front)[i] = ever[j]

\* what the code guarantees: the claim as long as some solution has been
\* recorded and no two recorded solutions agree in any objective
C16_FrontTieFree ==
    (recorded # <<>> /\ TieFree(Fits(recorded))) =>
        LET front == BestParetoFront(best_pareto)
            ever == Fits(recorded)
        IN  /\ ~panicked
            /\ \A i \in 1..Len(front) : ~\E j \in 1..Len(ever) :
                  Dominates(ever[j], Fits(front)[i])
            /\ \A j \in 1..Len(ever) :
                  (~\E k \in 1..Len(ever) : Dominates(ever[k], ever[j]))
                      => \E i \in 1..Len(front) : Fits(front)[i] = ever[j]

SameMultiset(s, t) ==
    /\ Len(s) = Len(t)
    /\ \A i \in 1..Len(s) : Count(s, s[i]) = Count(t, s[i])

\* C17: BestPareto::record is idempotent: recording a generation g twice
\* in a row leaves the same stored front (same multiset, same size) as
\* recording it once.
C17_RecordIdempotent ==
    (input.fn = "BestPareto::record"
        /\ input.before = Some(input.generation)) =>
        /\ ~panicked
        /\ SameMultiset(best_pareto.front, output.vec)

\* what the code does: the second record of a non-empty generation never
\* leaves the front smaller than the first did
C17_RecordTwiceGrows ==
    (input.fn = "BestPareto::record"
        /\ input.before = Some(input.generation)
        /\ input.generation # <<>>) =>
        /\ ~panicked
        /\ Len(best_pareto.front) >= Len(output.vec)

\* ------------------------------------------------------ constructors (C19)
Mut_TournamentNew(r) == Return([round_size |-> r])
\* Tournament::new(round_size)
TournamentNew(r) ==
    IF r = 0 THEN Panic(<<>>) ELSE Return([round_size |-> r])

\* MuCommaLambda::new(mu, lambda, cxpb, mutpb, selector)
MuCommaLambdaNew(mu, lambda, pr, selector) ==
    IF mu > lambda THEN Panic(<<>>)
    ELSE Return(Alg("MuCommaLambda", mu, lambda, pr, selector.round_size))

InitConstruct ==
    /\ input \in
          {[fn |-> "Tournament::new", round_size |-> r] : r \in 0..MaxPop}
          \cup {[fn |-> "MuCommaLambda::new", mu |-> mu, lambda |-> la,
                 pr |-> pr, selector |-> t.vec] :
                   mu \in 0..MaxPopSize, la \in 0..MaxLambda,
                   pr \in Probabilities \X Probabilities,
                   t \in {TournamentNew(r) : r \in 1..MaxPop}}
    /\ output = NoOutput
    /\ HofIdle
    /\ NotRunning

CallTournamentNew ==
    /\ input.fn = "Tournament::new" /\ ~output.done
    /\ output' = Done(TournamentNew(input.round_size))
    /\ UNCHANGED <<input, best_n, best_pareto, recorded, notLib>>

CallMuCommaLambdaNew ==
    /\ input.fn = "MuCommaLambda::new" /\ ~output.done
    /\ output' = Done(MuCommaLambdaNew(input.mu, input.lambda, input.pr,
                                       input.selector))
    /\ UNCHANGED <<input, best_n, best_pareto, recorded, notLib>>

NextConstruct ==
    \/ CallTournamentNew
    \/ CallMuCommaLambdaNew

SpecConstruct == InitConstruct /\ [][NextConstruct]_vars

InitGenOr ==
    /\ input \in {[fn |-> "gen_or", pop |-> P, n_offspring |-> n,
                   cxpb |-> pr[1], mutpb |-> pr[2]] :
                     P \in SeqsUpTo(CachedStates, MaxPopSize),
                     n \in 0..MaxLambda,
                     pr \in Probabilities \X Probabilities}
    /\ output = NoOutput
    /\ HofIdle
    /\ NotRunning

\* gen_or(&pop, n_offspring, cxpb, mutpb)
CallGenOr ==
    /\ input.fn = "gen_or" /\ ~output.done
    /\ \E o \in GenOr(input.pop, input.n_offspring, input.cxpb, input.mutpb) :
          output' = Done(o)
    /\ UNCHANGED <<input, best_n, best_pareto, recorded, notLib>>

NextGenOr == CallGenOr

SpecGenOr == InitGenOr /\ [][NextGenOr]_vars

\* C20: gen_or called with cxpb + mutpb > 1 panics on entry and returns no
\* offspring, for every population and every n_offspring.
C20_GenOrRejectsExcess ==
    (input.fn = "gen_or" /\ output.done /\ input.cxpb + input.mutpb > 100) =>
        output.panic

\* what the code does with cxpb + mutpb > 1: given two parents or more it
\* returns n_offspring offspring, none of them by cloning alone when
\* n_offspring > 0
C20_GenOrAcceptsExcess ==
    (input.fn = "gen_or" /\ output.done /\ input.cxpb + input.mutpb > 100
        /\ Len(input.pop) >= 2) =>
        /\ ~output.panic
        /\ Len(output.vec) = input.n_offspring
        /\ \A k \in 1..Len(output.vec) : output.vec[k].fitness = None

\* ------------------------------------------- repro_rng and replay (C18)
Modulus == MaxRng + 1

\* Xoshiro256StarStar::seed_from_u64
SeedFromU64(seed) == (3 * seed + 1) % Modulus

\* RngCore::next_u64: the value drawn and the generator after the draw
NextU64(s) == [value |-> s, rng |-> (5 * s + 3) % Modulus]

\* Rng::gen_bool(p), p in percent
GenBool(s, p) ==
    LET d == NextU64(s)
    IN  [value |-> d.value * 100 < p * Modulus, rng |-> d.rng]

\* Rng::gen_range(0..n)
GenRange(s, n) ==
    LET d == NextU64(s)
    IN  [value |-> d.value % n, rng |-> d.rng]

Mut_SeedChoices(e) == 0..MaxSeed
\* the seed THREAD_RNG_KEY is initialized with: EVIOLITE_SEED if it parses
\* as a u64, otherwise OsRng.next_u64()
SeedChoices(e) == IF e.parseable THEN {e.value} ELSE 0..MaxSeed

\* thread_rng(): the generator of the calling thread, seeded on first use
ThreadRng(r, e) ==
    IF r = None THEN {SeedFromU64(seed) : seed \in SeedChoices(e)}
    ELSE {Unwrap(r)}

\* the user's Solution::generate, mutate and crossover, wrapped by Cached:
\* they draw from thread_rng()
SeededGenerate(s) ==
    LET d == GenRange(s, MaxGene + 1)
    IN  [value |-> CachedNew(d.value), rng |-> d.rng]

SeededMutate(c, s) ==
    LET d == GenRange(s, MaxGene + 1)
    IN  [value |-> CachedMutate(c, d.value), rng |-> d.rng]

SeededCrossover(x, y, s) ==
    LET d == GenBool(s, 50)
    IN  [a |-> CachedMutate(x, IF d.value THEN y.inner ELSE x.inner),
         b |-> CachedMutate(y, IF d.value THEN x.inner ELSE y.inner),
         rng |-> d.rng]

\* Vec::n_from_function(n, Cached::generate)
RECURSIVE NFromFunction(_, _, _)
NFromFunction(n, v, s) ==
    IF Len(v) = n THEN [value |-> v, rng |-> s]
    ELSE LET g == SeededGenerate(s)
         IN  NFromFunction(n, Append(v, g.value), g.rng)

\* rand::seq::index::sample(rng, length, amount) for a given generator
RECURSIVE SampleLoop(_, _, _, _)
SampleLoop(positions, j, amount, s) ==
    IF j = amount THEN [value |-> SubSeq(positions, 1, amount), rng |-> s]
    ELSE LET d == GenRange(s, Len(positions) - j)
         IN  SampleLoop(Swap(positions, j, j + d.value), j + 1, amount, d.rng)

SeededSample(s, length, amount) ==
    SampleLoop(Positions(length), 0, amount, s)

\* the for loop of Tournament::select for a given generator
RECURSIVE SeededRounds(_, _, _, _, _)
SeededRounds(pop, r, n, won, s) ==
    IF Len(won) = n THEN [value |-> won, rng |-> s]
    ELSE LET sm == SeededSample(s, Len(pop), r)
         IN  SeededRounds(pop, r, n, Append(won, RoundIdx(pop, sm.value)),
                          sm.rng)

\* Tournament::select for a given generator
SeededTournamentSelect(r, n, pop, s) ==
    LET w == SeededRounds(pop, r, n, <<>>, s)
    IN  [value |-> RetainIndices(pop, w.value), rng |-> w.rng]

\* var_and for a given generator
RECURSIVE SeededVarAndFrom(_, _, _, _, _)
SeededVarAndFrom(pop, i, cxpb, mutpb, s) ==
    IF ~(i < Len(pop)) THEN [value |-> pop, rng |-> s]
    ELSE
    LET cx == IF i # 0 THEN GenBool(s, cxpb) ELSE [value |-> FALSE, rng |-> s]
        x == SeededCrossover(pop[i], pop[i + 1], cx.rng)
        crossed == IF cx.value THEN [pop EXCEPT ![i] = x.a, ![i + 1] = x.b]
                   ELSE pop
        mu == GenBool(IF cx.value THEN x.rng ELSE cx.rng, mutpb)
        m == SeededMutate(crossed[i + 1], mu.rng)
        mutated == IF mu.value THEN [crossed EXCEPT ![i + 1] = m.value]
                   ELSE crossed
    IN  SeededVarAndFrom(mutated, i + 1, cxpb, mutpb,
                         IF mu.value THEN m.rng ELSE mu.rng)

\* Simple::step for a given generator
SeededStepSimple(a, pop, s) ==
    LET sel == SeededTournamentSelect(a.round_size, a.pop_size, pop, s)
        v == SeededVarAndFrom(sel.value.vec, 0, a.cxpb, a.mutpb, sel.rng)
    IN  IF sel.value.panic THEN sel
        ELSE [value |-> Return(v.value), rng |-> v.rng]

RECURSIVE SumSeq(_)
SumSeq(fs) == IF fs = <<>> THEN 0 ELSE fs[1] + SumSeq(Tail(fs))

\* FitnessBasic::analyze
Analyze(generation_) ==
    LET mean == SumSeq(FitsOf(generation_))
        variance == SumSeq([i \in 1..Len(generation_) |->
                               (Fit(generation_[i]) - mean)
                                   * (Fit(generation_[i]) - mean)])
    IN  [mean |-> mean, variance |-> variance]

NoStat == [mean |-> 0, variance |-> 0]

Envs ==
    {[parseable |-> TRUE, value |-> v] : v \in 0..MaxSeed}
        \cup {[parseable |-> FALSE, value |-> 0]}

\* the Log a run returns
Log ==
    [hall_of_fame |-> hall_of_fame, stats |-> stats,
     final_population |-> population]

\* a process starts: nothing has used the generator yet
ProcessStart ==
    /\ rng = None
    /\ pending = {}
    /\ population = <<>>
    /\ panicked = FALSE
    /\ pc = "new"
    /\ generation = 0
    /\ hall_of_fame = <<>>
    /\ stat = NoStat
    /\ stats = <<>>
    /\ trace = <<>>
    /\ held = 0

\* two runs of Evolution::new(Simple::new(..), hof).run_for(n_gens) in two
\* processes with the same environment
InitRepro ==
    /\ algorithm \in SimpleAlgorithms
    /\ mode = "run_for"
    /\ n_gens \in 0..MaxGens
    /\ env \in Envs
    /\ run = 1
    /\ first = None
    /\ ProcessStart
    /\ lastCall = NoCall
    /\ SelectIdle
    /\ ParIdle
    /\ input = NoInput
    /\ output = NoOutput
    /\ HofIdle

notRepro == <<cachedVars, selectVars, parVars, input, output, best_n,
              best_pareto, recorded, algorithm, mode, n_gens, env>>

\* Evolution::new
ReproNew ==
    /\ pc = "new"
    /\ \E s \in ThreadRng(rng, env) :
          LET v == NFromFunction(PopSize(algorithm), <<>>, s)
          IN  /\ population' = v.value
              /\ rng' = Some(v.rng)
    /\ held' = 1
    /\ pc' = IF ForContinues(0, n_gens) THEN "par_evaluate" ELSE "return"
    /\ UNCHANGED <<panicked, generation, hall_of_fame, stat, stats, trace,
                   pending, run, first, notRepro>>

\* par_evaluate: pop.par_iter().for_each hands every member to the pool
ReproSpawn ==
    /\ pc = "par_evaluate" /\ ~panicked
    /\ pending' = 1..Len(population)
    /\ trace' = Called("par_evaluate")
    /\ pc' = "evaluating"
    /\ UNCHANGED <<population, panicked, generation, hall_of_fame, stat,
                   stats, held, rng, run, first, notRepro>>

\* a worker thread runs ind.evaluate() for one member: the pure evaluate
\* of the solution, no draw from any generator
ReproEvaluate ==
    /\ pc = "evaluating"
    /\ \E i \in pending :
          /\ population' = [population EXCEPT ![i] = CachedEvaluate(@)]
          /\ pending' = pending \ {i}
    /\ UNCHANGED <<panicked, pc, generation, hall_of_fame, stat, stats,
                   trace, held, rng, run, first, notRepro>>

\* for_each returns once every member has been visited
ReproJoin ==
    /\ pc = "evaluating" /\ pending = {}
    /\ pc' = "record"
    /\ UNCHANGED <<population, panicked, generation, hall_of_fame, stat,
                   stats, trace, held, rng, pending, run, first, notRepro>>

ReproRecord ==
    /\ pc = "record"
    /\ hall_of_fame' = Append(hall_of_fame, held)
    /\ trace' = Called("record")
    /\ pc' = "analyze"
    /\ UNCHANGED <<population, panicked, generation, stat, stats, held, rng,
                   pending, run, first, notRepro>>

ReproAnalyze ==
    /\ pc = "analyze"
    /\ stat' = Analyze(population)
    /\ trace' = Called("analyze")
    /\ pc' = "callback"
    /\ UNCHANGED <<population, panicked, generation, hall_of_fame, stats,
                   held, rng, pending, run, first, notRepro>>

ReproCallback ==
    /\ pc = "callback"
    /\ trace' = Called("callback")
    /\ pc' = "push"
    /\ UNCHANGED <<population, panicked, generation, hall_of_fame, stat,
                   stats, held, rng, pending, run, first, notRepro>>

ReproPush ==
    /\ pc = "push"
    /\ stats' = Append(stats, stat)
    /\ trace' = Called("push")
    /\ pc' = "step"
    /\ UNCHANGED <<population, panicked, generation, hall_of_fame, stat,
                   held, rng, pending, run, first, notRepro>>

\* self.algorithm.step(&mut self.population) on the driver thread
ReproStep ==
    /\ pc = "step"
    /\ \E s \in ThreadRng(rng, env) :
          LET o == SeededStepSimple(algorithm, population, s)
          IN  /\ population' = o.value.vec
              /\ panicked' = o.value.panic
              /\ rng' = Some(o.rng)
    /\ trace' = Called("step")
    /\ held' = held + 1
    /\ generation' = generation + 1
    /\ pc' = IF ForContinues(generation + 1, n_gens) THEN "par_evaluate"
             ELSE "return"
    /\ UNCHANGED <<hall_of_fame, stat, stats, pending, run, first, notRepro>>

\* the run returns its Log
ReproReturn ==
    /\ pc = "return" /\ ~panicked
    /\ pc' = "returned"
    /\ first' = IF run = 1 THEN Some(Log) ELSE first
    /\ UNCHANGED <<population, panicked, generation, hall_of_fame, stat,
                   stats, trace, held, rng, pending, run, notRepro>>

\* the second process starts
ReproSecondRun ==
    /\ pc = "returned" /\ run = 1
    /\ run' = 2
    /\ rng' = None
    /\ pending' = {}
    /\ population' = <<>>
    /\ pc' = "new"
    /\ generation' = 0
    /\ hall_of_fame' = <<>>
    /\ stat' = NoStat
    /\ stats' = <<>>
    /\ trace' = <<>>
    /\ held' = 0
    /\ UNCHANGED <<panicked, first, notRepro>>

NextRepro ==
    \/ ReproNew
    \/ ReproSpawn
    \/ ReproEvaluate
    \/ ReproJoin
    \/ ReproRecord
    \/ ReproAnalyze
    \/ ReproCallback
    \/ ReproPush
    \/ ReproStep
    \/ ReproReturn
    \/ ReproSecondRun

SpecRepro == InitRepro /\ [][NextRepro]_vars

MaxCalls == 3

Mut_IntoInner(c) == <<c.inner, None>>
\* Cached::into_inner: the solution and the slot contents
IntoInner(c) == <<c.inner, c.fitness>>

\* let w = Cached::new(s)
InitIntoInner ==
    /\ \E s \in Genes :
          /\ input = [fn |-> "Cached::into_inner", s |-> s, calls |-> <<>>]
          /\ population = <<CachedNew(s)>>
    /\ output = NoOutput
    /\ panicked = FALSE
    /\ HofIdle
    /\ lastCall = NoCall
    /\ SelectIdle
    /\ ParIdle
    /\ DriverIdle
    /\ ReproIdle

notWrapper == <<panicked, best_n, best_pareto, recorded, cachedVars,
                selectVars, parVars, driverVars, reproVars>>

\* the wrapper has not been consumed and may take one more call
WrapperLive == /\ input.fn = "Cached::into_inner"
               /\ ~output.done
               /\ Len(input.calls) < MaxCalls

\* w.evaluate()
WrapperEvaluate ==
    /\ WrapperLive
    /\ population' = <<CachedEvaluate(population[1])>>
    /\ input' = [input EXCEPT !.calls = Append(@, "evaluate")]
    /\ UNCHANGED <<output, notWrapper>>

\* w.mutate()
WrapperMutate ==
    /\ WrapperLive
    /\ \E g \in Genes : population' = <<CachedMutate(population[1], g)>>
    /\ input' = [input EXCEPT !.calls = Append(@, "mutate")]
    /\ UNCHANGED <<output, notWrapper>>

\* Cached::crossover(&mut w, &mut other) with some other wrapper
WrapperCrossover ==
    /\ WrapperLive
    /\ \E g \in Genes : population' = <<CachedMutate(population[1], g)>>
    /\ input' = [input EXCEPT !.calls = Append(@, "crossover")]
    /\ UNCHANGED <<output, notWrapper>>

\* w.clear_cache()
WrapperClearCache ==
    /\ WrapperLive
    /\ population' = <<ClearCache(population[1])>>
    /\ input' = [input EXCEPT !.calls = Append(@, "clear_cache")]
    /\ UNCHANGED <<output, notWrapper>>

\* w.into_inner(): consumes the wrapper
WrapperIntoInner ==
    /\ input.fn = "Cached::into_inner" /\ ~output.done
    /\ output' = Done(Return(IntoInner(population[1])))
    /\ population' = <<>>
    /\ UNCHANGED <<input, notWrapper>>

NextIntoInner ==
    \/ WrapperEvaluate
    \/ WrapperMutate
    \/ WrapperCrossover
    \/ WrapperClearCache
    \/ WrapperIntoInner

SpecIntoInner == InitIntoInner /\ [][NextIntoInner]_vars

\* the calls made on the wrapper are evaluate only, at least one of them
OnlyEvaluated(calls) ==
    /\ calls # <<>>
    /\ \A k \in 1..Len(calls) : calls[k] = "evaluate"

\* C21: Cached::new(s).into_inner() returns (s, None); after evaluate() on
\* the wrapper, with no mutate, crossover or clear_cache after it,
\* into_inner() returns (s, Some(s.evaluate())).
C21_IntoInnerReturnsSlot ==
    (input.fn = "Cached::into_inner" /\ output.done) =>
        /\ ~output.panic
        /\ input.calls = <<>> => output.vec = <<input.s, None>>
        /\ OnlyEvaluated(input.calls) =>
              output.vec = <<input.s, Some(Evaluate(input.s))>>

\* into_inner has returned a filled slot after one evaluate
C21_Witness ==
    /\ input.fn = "Cached::into_inner"
    /\ output.done
    /\ input.calls = <<"evaluate">>
    /\ IsSome(output.vec[2])

\* ---------------------------------------- stats::FitnessBasic (C22)
InitStats ==
    /\ \E G \in Generations :
          /\ population = G
          /\ input = [fn |-> "FitnessBasic::analyze", generation |-> G]
    /\ output = NoOutput
    /\ panicked = FALSE
    /\ HofIdle
    /\ lastCall = NoCall
    /\ SelectIdle
    /\ ParIdle
    /\ DriverIdle
    /\ ReproIdle

\* FitnessBasic::analyze(&population): every sol.evaluate() goes through
\* the wrapper
CallAnalyze ==
    /\ input.fn = "FitnessBasic::analyze" /\ ~output.done
    /\ population' = [i \in 1..Len(population) |->
                         CachedEvaluate(population[i])]
    /\ output' = Done(Return(Analyze(population)))
    /\ UNCHANGED <<input, notWrapper>>

NextStats == CallAnalyze

SpecStats == InitStats /\ [][NextStats]_vars

\* N * N times the sum of the squared deviations of fs from the arithmetic
\* mean of fs, N = Len(fs)
ScaledSquares(fs) ==
    SumSeq([i \in 1..Len(fs) |->
               (Len(fs) * fs[i] - SumSeq(fs)) * (Len(fs) * fs[i] - SumSeq(fs))])

\* C22: for a non-empty generation of N evaluated solutions, mean() is the
\* sum of the collapsed fitness values divided by N, and variance() is
\* computed from the squared deviations from that arithmetic mean (their
\* sum, or their sum divided by N or by N - 1).
C22_MeanIsArithmetic ==
    (input.fn = "FitnessBasic::analyze" /\ output.done
        /\ input.generation # <<>>) =>
        LET fs == FitsOf(input.generation)
            N == Len(fs)
            v == output.vec.variance * N * N
        IN  /\ output.vec.mean * N = SumSeq(fs)
            /\ \/ v = ScaledSquares(fs)
               \/ v * N = ScaledSquares(fs)
               \/ v * (N - 1) = ScaledSquares(fs)

\* what the code does: mean() is the sum of the collapsed fitness values
\* and variance() the sum of the squared deviations from that sum, so the
\* two agree with the arithmetic mean only for N = 1 or a sum of zero
C22_MeanIsSum ==
    (input.fn = "FitnessBasic::analyze" /\ output.done) =>
        LET fs == FitsOf(input.generation)
        IN  /\ output.vec.mean = SumSeq(fs)
            /\ output.vec.variance =
                  SumSeq([i \in 1..Len(fs) |->
                             (fs[i] - SumSeq(fs)) * (fs[i] - SumSeq(fs))])
            /\ (Len(fs) = 1 \/ SumSeq(fs) = 0) =>
                  /\ output.vec.mean * Len(fs) = SumSeq(fs)
                  /\ output.vec.variance * Len(fs) * Len(fs)
                        = ScaledSquares(fs)

\* ------------------------------- par_evaluate with a failing evaluate (C23)
\* The user's evaluate panics on the genomes of input.failing.
InitParFail ==
    /\ population \in UNION {[1..n -> CachedStates] : n \in 0..MaxTasks}
    /\ input \in {[fn |-> "par_evaluate", failing |-> F] : F \in SUBSET Genes}
    /\ target = ParTargets(population)
    /\ tpc = [t \in DOMAIN target |-> "start"]
    /\ new_fitness = [t \in DOMAIN target |-> None]
    /\ retval = [t \in DOMAIN target |-> None]
    /\ evals = [c \in DOMAIN population |-> 0]
    /\ writes = [c \in DOMAIN population |-> 0]
    /\ touched = [c \in DOMAIN population |-> {}]
    /\ raced = FALSE
    /\ original = population
    /\ phase = "running"
    /\ panicked = FALSE
    /\ vec = <<>>
    /\ indices = <<>>
    /\ round_size = 0
    /\ n_rounds = 0
    /\ winners = <<>>
    /\ lastCall = NoCall
    /\ output = NoOutput
    /\ DriverIdle
    /\ HofIdle
    /\ ReproIdle

\* `self.inner.evaluate()` returns
EvComputeOk(t) ==
    /\ input.fn = "par_evaluate"
    /\ population[target[t]].inner \notin input.failing
    /\ EvCompute(t)

\* `self.inner.evaluate()` panics: the task unwinds before the slot is
\* written and rayon keeps the panic until the pass ends
EvFail(t) ==
    /\ input.fn = "par_evaluate"
    /\ phase = "running"
    /\ tpc[t] = "compute"
    /\ population[target[t]].inner \in input.failing
    /\ evals' = [evals EXCEPT ![target[t]] = @ + 1]
    /\ tpc' = [tpc EXCEPT ![t] = "panicked"]
    /\ UNCHANGED <<population, panicked, phase, original, new_fitness,
                   retval, writes, touched, raced, target, vec, indices,
                   round_size, n_rounds, winners, cachedVars, driverVars,
                   libVars>>

\* a task has panicked: the tasks already running finish, those not yet
\* started may be dropped, and par_evaluate resumes the panic in its caller
Unwind ==
    /\ input.fn = "par_evaluate"
    /\ phase = "running"
    /\ \E t \in DOMAIN tpc : tpc[t] = "panicked"
    /\ \A t \in DOMAIN tpc : tpc[t] \in {"start", "done", "panicked"}
    /\ phase' = "returned"
    /\ panicked' = TRUE
    /\ UNCHANGED <<population, original, vec, indices, round_size, n_rounds,
                   winners, parVars, cachedVars, driverVars, libVars>>

NextParFail ==
    \/ \E t \in DOMAIN tpc : EvRead(t)
    \/ \E t \in DOMAIN tpc : EvComputeOk(t)
    \/ \E t \in DOMAIN tpc : EvFail(t)
    \/ \E t \in DOMAIN tpc : EvWriteBegin(t)
    \/ \E t \in DOMAIN tpc : EvWriteEnd(t)
    \/ Barrier
    \/ Unwind

SpecParFail == InitParFail /\ [][NextParFail]_vars

\* some member with an empty slot has a genome the user's evaluate fails on
SomeFails ==
    \E c \in DOMAIN original :
        original[c].fitness = None /\ original[c].inner \in input.failing

\* C23: if the user's evaluate panics for some member during a parallel
\* evaluation pass, the panic leaves par_evaluate and the fitness caches
\* are exactly as they were when the pass began.
C23_FailureLeavesCaches ==
    (input.fn = "par_evaluate" /\ phase = "returned" /\ SomeFails) =>
        /\ panicked
        /\ population = original

\* what the code does: the panic leaves par_evaluate, no solution has
\* changed, and every slot is as it was or has been filled by the pass
C23_FailureKeepsFilled ==
    (input.fn = "par_evaluate" /\ phase = "returned") =>
        /\ panicked <=> SomeFails
        /\ \A c \in DOMAIN population :
              /\ population[c].inner = original[c].inner
              /\ \/ population[c].fitness = original[c].fitness
                 \/ /\ original[c].fitness = None
                    /\ population[c].inner \notin input.failing
                    /\ population[c].fitness
                          = Some(Evaluate(population[c].inner))

\* ------------------------------------- what the predicate observes (C24)
\* the last call the driver made
LastCall == IF trace = <<>> THEN "none" ELSE trace[Len(trace)][1]

\* C24: in run_until the predicate is called only on a population that is
\* fully evaluated, already recorded into the hall of fame and analyzed
\* into the stat it is shown, with gen equal to the number of steps made
\* so far; once it returns true no further step, evaluation, record or
\* callback happens and final_population is the population it saw; if it
\* returns true on its first call, step is never executed.
C24_PredicateSeesFinalState ==
    /\ []((mode = "run_until" /\ pc = "predicate") =>
             /\ AllFilled(population)
             /\ LastCall = "analyze"
             /\ hall_of_fame # <<>>
             /\ hall_of_fame[Len(hall_of_fame)] = held
             /\ stat = held
             /\ generation = Cardinality(CallsOf("step"))
             /\ Cardinality(CallsOf("record")) = generation + 1)
    /\ []((mode = "run_until" /\ pc \in {"return", "returned"}) =>
             /\ LastCall = "predicate"
             /\ AllFilled(population)
             /\ hall_of_fame[Len(hall_of_fame)] = held
             /\ generation = Cardinality(CallsOf("step"))
             /\ Cardinality(CallsOf("predicate")) = 1 => CallsOf("step") = {})
    /\ [][(mode = "run_until" /\ pc \in {"predicate", "return"}
              /\ pc' \in {"return", "returned"}) =>
             /\ population' = population
             /\ hall_of_fame' = hall_of_fame
             /\ stats' = stats
             /\ held' = held]_vars

\* a run_until has returned after the predicate refused a generation
C24_Witness ==
    /\ mode = "run_until"
    /\ pc = "returned"
    /\ generation >= 1
    /\ LastCall = "predicate"
    /\ Cardinality(CallsOf("step")) = generation

\* ------------------------------------------- the layered fronts (C25)
\* the population of test_rank_nondominated, in twentieths
TestPopulation ==
    <<<<12, 12>>, <<0, 20>>, <<15, 5>>, <<5, 15>>, <<20, 0>>, <<18, 18>>>>

InitRank ==
    /\ input \in
          {[fn |-> "rank_nondominated", pop |-> P, policy |-> tie] :
              P \in SeqsUpTo(FitVectors, MaxRankPop) \cup {TestPopulation},
              tie \in TiePolicies}
    /\ output = NoOutput
    /\ HofIdle
    /\ NotRunning

NextRank == CallRankNondominated

SpecRank == InitRank /\ [][NextRank]_vars

\* counts[r] is the number of members of rank r, every front is inhabited
\* and the fronts partition the population
CountsMatch(ranks, counts) ==
    /\ \A r \in 1..Len(counts) :
          /\ counts[r] = Cardinality({i \in 1..Len(ranks) : ranks[i] = r - 1})
          /\ counts[r] >= 1
    /\ SumSeq(counts) = Len(ranks)

\* C25: rank_nondominated(P) returns the layered fronts: front 0 is the
\* members no member dominates, front k + 1 the members not dominated once
\* fronts 0..k are removed; counts[r] is the number of members of rank r,
\* at least 1, and the counts sum to |P|.  For the six points of
\* test_rank_nondominated the result is ranks [1,0,1,1,0,0], counts [3,3].
C25_LayeredFronts ==
    (input.fn = "rank_nondominated" /\ output.done) =>
        /\ \A i \in 1..Len(input.pop) :
              output.vec.ranks[i] = NondominatedRank(input.pop, i)
        /\ CountsMatch(output.vec.ranks, output.vec.counts)
        /\ input.pop = TestPopulation =>
              /\ output.vec.ranks = <<1, 0, 1, 1, 0, 0>>
              /\ output.vec.counts = <<3, 3>>

\* what the code guarantees: the layered fronts when no two members of P
\* agree in any objective, the counts in every case, and the test's result
C25_LayeredTieFree ==
    (input.fn = "rank_nondominated" /\ output.done) =>
        /\ TieFree(input.pop) =>
              \A i \in 1..Len(input.pop) :
                  output.vec.ranks[i] = NondominatedRank(input.pop, i)
        /\ CountsMatch(output.vec.ranks, output.vec.counts)
        /\ input.pop = TestPopulation =>
              /\ output.vec.ranks = <<1, 0, 1, 1, 0, 0>>
              /\ output.vec.counts = <<3, 3>>

\* ------------------------------------ sort_by_crowding_distance (C26)
\* the fronts over a population of n members: distinct positions
FrontsOf(n) ==
    {f \in SeqsUpTo(0..(n - 1), n) : \A a, b \in 1..Len(f) : a # b => f[a] # f[b]}

InitCrowding ==
    /\ \E P \in SeqsUpTo(FitVectors, MaxSelectPop) :
          /\ population = [i \in 1..Len(P) |-> Foo(P[i])]
          /\ input \in {[fn |-> "sort_by_crowding_distance", front |-> f,
                         policy |-> tie, nan_sign |-> sign] :
                           f \in FrontsOf(Len(P)), tie \in TiePolicies,
                           sign \in NanSigns}
    /\ output = NoOutput
    /\ panicked = FALSE
    /\ HofIdle
    /\ lastCall = NoCall
    /\ SelectIdle
    /\ ParIdle
    /\ DriverIdle
    /\ ReproIdle

\* sort_by_crowding_distance(&mut front, &pop); front_enumerated[0] panics
\* on an empty front.  The distances are recorded by position in the front
\* as passed in.
CallSortByCrowdingDistance ==
    /\ input.fn = "sort_by_crowding_distance" /\ ~output.done
    /\ \E res \in {IF input.front = <<>> THEN Panic(<<>>)
                   ELSE Return(
                     [front |-> SortByCrowdingDistance(
                                    input.front, Fits(population),
                                    input.policy, input.nan_sign),
                      distances |-> CrowdingDistances(
                                    input.front, Fits(population),
                                    input.policy).distances])} :
          /\ output' = Done(res)
          /\ panicked' = res.panic
    /\ UNCHANGED <<population, input, best_n, best_pareto, recorded,
                   cachedVars, selectVars, parVars, driverVars, reproVars>>

NextCrowding == CallSortByCrowdingDistance

SpecCrowding == InitCrowding /\ [][NextCrowding]_vars

\* objective m has the same value in every member of the front
Constant(front, fits, m) ==
    \A a, b \in 1..Len(front) : At(fits, front[a])[m] = At(fits, front[b])[m]

\* the crowding distances when an objective with max = min contributes
\* zero: the loop of sort_by_crowding_distance with that guard
RECURSIVE GuardedLoop(_, _, _, _, _, _)
GuardedLoop(distances, enum, fits, m, policy, scale) ==
    IF m > NumObjectives THEN distances
    ELSE
    LET fit(idx) == At(fits, idx)[m]
        sorted == SortBy(enum, LAMBDA a, b : fit(a[2]) < fit(b[2]), policy)
        frontsize == Len(sorted)
        fit_range == fit(sorted[frontsize][2]) - fit(sorted[1][2])
        ends == {sorted[1][1], sorted[frontsize][1]}
        term(k) == IF fit_range = 0 THEN Fin(0)
                   ELSE Fin((fit(sorted[k + 1][2]) - fit(sorted[k - 1][2]))
                               * scale[m])
        pos(i) == CHOOSE k \in 1..frontsize : sorted[k][1] = i
        next == [i \in DOMAIN distances |->
                    IF i \in ends THEN Inf
                    ELSE DistAdd(distances[i], term(pos(i)))]
    IN  GuardedLoop(next, sorted, fits, m + 1, policy, scale)

GuardedDistances(front, fits, policy) ==
    LET frontsize == Len(front)
        range(m) == SetMax({At(fits, front[k])[m] : k \in 1..frontsize})
                      - SetMin({At(fits, front[k])[m] : k \in 1..frontsize})
        scale == [m \in Objectives |->
                    IF m = 1 THEN (IF range(2) = 0 THEN 1 ELSE range(2))
                    ELSE (IF range(1) = 0 THEN 1 ELSE range(1))]
    IN  GuardedLoop([i \in 0..(frontsize - 1) |-> Fin(0)],
                    [k \in 1..frontsize |-> <<k - 1, front[k]>>],
                    fits, 1, policy, scale)

\* position (0-based) in the front as passed in of the member at place k
\* of the front as returned
PlaceOf(k) ==
    CHOOSE i \in 0..(Len(input.front) - 1) :
        input.front[i + 1] = output.vec.front[k]

\* C26: an objective in which all members of the front have the same value
\* contributes zero to every distance: the distances are well defined (no
\* not-a-number value) and the front is ordered by the distances the
\* remaining objectives give.
C26_ConstantObjectiveIsZero ==
    (input.fn = "sort_by_crowding_distance" /\ output.done /\ ~output.panic
        /\ \E m \in Objectives :
              Constant(input.front, Fits(population), m)) =>
        LET guarded == GuardedDistances(input.front, Fits(population),
                                        input.policy)
        IN  /\ \A i \in DOMAIN output.vec.distances :
                  output.vec.distances[i].kind # "nan"
            /\ output.vec.distances = guarded
            /\ \A k \in 1..(Len(output.vec.front) - 1) :
                  ~DistLess(guarded[PlaceOf(k)], guarded[PlaceOf(k + 1)],
                            input.nan_sign)

\* what the code guarantees: the same for the fronts of one or two members,
\* where every member is an end, and for the fronts in which no objective
\* is constant
C26_NoConstantObjective ==
    (input.fn = "sort_by_crowding_distance" /\ output.done /\ ~output.panic
        /\ \/ Len(input.front) <= 2
           \/ ~\E m \in Objectives :
                  Constant(input.front, Fits(population), m)) =>
        LET guarded == GuardedDistances(input.front, Fits(population),
                                        input.policy)
        IN  /\ \A i \in DOMAIN output.vec.distances :
                  output.vec.distances[i].kind # "nan"
            /\ output.vec.distances = guarded
            /\ \A k \in 1..(Len(output.vec.front) - 1) :
                  ~DistLess(guarded[PlaceOf(k)], guarded[PlaceOf(k + 1)],
                            input.nan_sign)

\* ------------------------------------------- splitting a front (C27)
\* the front select_indices hands to sort_by_crowding_distance, as it is
\* handed over, and the number of members of the fronts before it
SplitFront(n, fits, policy) ==
    LET pareto == RankNondominated(fits, policy)
        by_rank == SortBy(Positions(Len(fits)),
                          LAMBDA a, b : At(pareto.ranks, a) < At(pareto.ranks, b),
                          policy)
        c == CompleteRanks(pareto.counts, n, 0, 0)
        rest == SubSeq(by_rank, c.count_sum + 1, Len(by_rank))
    IN  [c |-> c.count_sum,
         lower |-> {by_rank[k] : k \in 1..c.count_sum},
         front |-> Truncate(rest, At(pareto.counts, c.curr_rank))]

Range(s) == {s[k] : k \in 1..Len(s)}

\* member p of the front is the minimum or the maximum of the front in
\* some objective
Extreme(p, front, fits) ==
    \E m \in Objectives :
        \/ \A k \in 1..Len(front) : At(fits, p)[m] <= At(fits, front[k])[m]
        \/ \A k \in 1..Len(front) : At(fits, p)[m] >= At(fits, front[k])[m]

\* the properties of the split, for the distances dist by position in the
\* front
SplitKeepsMostCrowded(n, fits, kept, policy, nan_sign) ==
    LET s == SplitFront(n, fits, policy)
        dist == GuardedDistances(s.front, fits, policy)
        D(p) == dist[CHOOSE i \in 0..(Len(s.front) - 1) : s.front[i + 1] = p]
        retained == Range(kept) \cap Range(s.front)
        discarded == Range(s.front) \ Range(kept)
    IN  /\ Len(kept) = n
        /\ s.lower \subseteq Range(kept)
        /\ Cardinality(retained) = n - s.c
        /\ \A x \in retained, y \in discarded :
              ~DistLess(D(x), D(y), nan_sign)
        /\ \A x \in retained, y \in discarded :
              Extreme(y, s.front, fits) => Extreme(x, s.front, fits)

\* C27: when select_indices(n, pop) has to split a front it retains all c
\* members of the lower fronts and exactly n - c members of the splitting
\* front; every retained member of that front has a crowding distance
\* greater than or equal to that of every discarded member, and a member
\* that is the minimum or the maximum of the front in some objective is
\* retained before any member that is interior in every objective.
C27_SplitByCrowding ==
    (input.fn = "NSGA2::select" /\ output.done /\ ~output.panic) =>
        \A nan_sign \in NanSigns :
            SplitKeepsMostCrowded(input.k, Fits(input.pop),
                                  output.vec.indices, output.vec.policy,
                                  nan_sign)

\* what the code guarantees: the same when no objective is constant over
\* the splitting front
C27_SplitNoConstantObjective ==
    (input.fn = "NSGA2::select" /\ output.done /\ ~output.panic
        /\ LET s == SplitFront(input.k, Fits(input.pop), output.vec.policy)
           IN  ~\E m \in Objectives :
                   Constant(s.front, Fits(input.pop), m)) =>
        \A nan_sign \in NanSigns :
            SplitKeepsMostCrowded(input.k, Fits(input.pop),
                                  output.vec.indices, output.vec.policy,
                                  nan_sign)

\* ------------------------------------------------------- var_and (C28)
\* var_and from position i (0-based) on, with the operations it applies:
\* <<"crossover", i - 1, i>> and <<"mutate", i, i>>, in the order applied
RECURSIVE VarAndTraced(_, _, _, _, _)
VarAndTraced(pop, i, cxpb, mutpb, log) ==
    IF ~(i < Len(pop)) THEN {[pop |-> pop, log |-> log]}
    ELSE
    LET crossed ==
            UNION {IF i # 0 /\ cx
                   THEN {[pop |-> [pop EXCEPT ![i] = a, ![i + 1] = b],
                          log |-> Append(log, <<"crossover", i - 1, i>>)] :
                            a \in Varied(pop[i]), b \in Varied(pop[i + 1])}
                   ELSE {[pop |-> pop, log |-> log]} : cx \in Bernoulli(cxpb)}
        mutated ==
            UNION {IF mu
                   THEN {[pop |-> [q.pop EXCEPT ![i + 1] = a],
                          log |-> Append(q.log, <<"mutate", i, i>>)] :
                            a \in Varied(q.pop[i + 1])}
                   ELSE {q} : q \in crossed, mu \in Bernoulli(mutpb)}
    IN  UNION {VarAndTraced(q.pop, i + 1, cxpb, mutpb, q.log) : q \in mutated}

InitVarAnd ==
    /\ \E P \in SeqsUpTo(CachedStates, MaxPop) :
          /\ population = P
          /\ input \in {[fn |-> "var_and", pop |-> P, cxpb |-> pr[1],
                         mutpb |-> pr[2]] :
                           pr \in Probabilities \X Probabilities}
    /\ output = NoOutput
    /\ panicked = FALSE
    /\ HofIdle
    /\ lastCall = NoCall
    /\ SelectIdle
    /\ ParIdle
    /\ DriverIdle
    /\ ReproIdle

\* var_and(&mut pop, cxpb, mutpb)
CallVarAnd ==
    /\ input.fn = "var_and" /\ ~output.done
    /\ \E r \in VarAndTraced(population, 0, input.cxpb, input.mutpb, <<>>) :
          /\ population' = r.pop
          /\ output' = Done(Return(r.log))
    /\ UNCHANGED <<input, notWrapper>>

NextVarAnd == CallVarAnd

SpecVarAnd == InitVarAnd /\ [][NextVarAnd]_vars

\* the positions (0-based) operation op works on
Operands(op) == {op[2], op[3]}

\* C28: var_and visits the indices in ascending order, never changes the
\* length of pop, applies crossover only to (pop[i-1], pop[i]) with
\* i >= 1, so a singleton gets at most one mutation and no crossover;
\* with cxpb = 0 and mutpb = 0 it leaves every solution and cache as it
\* was, and a cache is emptied only if its member took part in a
\* crossover or a mutation.
C28_VarAndFrame ==
    (input.fn = "var_and" /\ output.done) =>
        LET log == output.vec
            n == Len(input.pop)
        IN  /\ ~output.panic
            /\ Len(population) = n
            /\ \A k \in 1..Len(log) :
                  /\ log[k][3] \in 0..(n - 1)
                  /\ log[k][1] = "crossover" =>
                        log[k][3] >= 1 /\ log[k][2] = log[k][3] - 1
                  /\ log[k][1] = "mutate" => log[k][2] = log[k][3]
            /\ \A k, l \in 1..Len(log) :
                  k < l =>
                     \/ log[k][3] < log[l][3]
                     \/ /\ log[k][3] = log[l][3]
                        /\ log[k][1] = "crossover"
                        /\ log[l][1] = "mutate"
            /\ n = 1 => log \in {<<>>, <<<<"mutate", 0, 0>>>>}
            /\ (input.cxpb = 0 /\ input.mutpb = 0) =>
                  log = <<>> /\ population = input.pop
            /\ \A p \in 0..(n - 1) :
                  IF \E k \in 1..Len(log) : p \in Operands(log[k])
                  THEN At(population, p).fitness = None
                  ELSE At(population, p) = At(input.pop, p)

\* var_and has crossed one pair and left an evaluated member untouched
C28_Witness ==
    /\ input.fn = "var_and"
    /\ output.done
    /\ Len(input.pop) = 3
    /\ \E k \in 1..Len(output.vec) : output.vec[k][1] = "crossover"
    /\ \E p \in 1..3 :
          /\ IsSome(input.pop[p].fitness)
          /\ population[p].fitness = None
    /\ \E p \in 1..3 :
          /\ IsSome(input.pop[p].fitness)
          /\ population[p] = input.pop[p]

\* -------------------------------------------- gen_or, offspring (C29)
\* one iteration of gen_or with the branch taken: what it can push
OffspringTraced(pop, cxpb, mutpb) ==
    LET clones == {CachedClone(pop[k]) : k \in 1..Len(pop)}
        tagged(by, S) == {Return(<<[by |-> by, child |-> c]>>) : c \in S}
        varied == UNION {Varied(c) : c \in clones}
        by_crossover == IF cxpb = 0 THEN {}
                        ELSE IF Len(pop) < 2 THEN {Panic(<<>>)}
                        ELSE tagged("crossover", varied)
        by_mutation == IF mutpb = 0 \/ cxpb = 100 THEN {}
                       ELSE IF Len(pop) = 0 THEN {Panic(<<>>)}
                       ELSE tagged("mutation", varied)
        by_cloning == IF cxpb + mutpb >= 100 THEN {}
                      ELSE IF Len(pop) = 0 THEN {Panic(<<>>)}
                      ELSE tagged("clone", clones)
    IN  by_crossover \cup by_mutation \cup by_cloning

\* gen_or(pop, n_offspring, cxpb, mutpb) with the branch of every iteration
GenOrTraced(pop, n_offspring, cxpb, mutpb) ==
    LET each == OffspringTraced(pop, cxpb, mutpb)
        pushed == {o \in each : ~o.panic}
    IN  IF n_offspring = 0 THEN {Return(<<>>)}
        ELSE {Panic(<<>>) : o \in each \ pushed}
             \cup {Return([k \in 1..n_offspring |-> f[k].vec[1]]) :
                      f \in [1..n_offspring -> pushed]}

InitOffspring ==
    /\ \E P \in SeqsUpTo(CachedStates, MaxPopSize) :
          /\ population = P
          /\ input \in {[fn |-> "gen_or", pop |-> P, n_offspring |-> n,
                         cxpb |-> pr[1], mutpb |-> pr[2]] :
                           n \in 0..MaxLambda,
                           pr \in Probabilities \X Probabilities}
    /\ output = NoOutput
    /\ panicked = FALSE
    /\ HofIdle
    /\ lastCall = NoCall
    /\ SelectIdle
    /\ ParIdle
    /\ DriverIdle
    /\ ReproIdle

\* let offspring = gen_or(&pop, n_offspring, cxpb, mutpb): pop is only
\* read, through clone
CallGenOrTraced ==
    /\ input.fn = "gen_or" /\ ~output.done
    /\ \E o \in GenOrTraced(population, input.n_offspring, input.cxpb,
                            input.mutpb) :
          /\ output' = Done(o)
          /\ panicked' = o.panic
    /\ UNCHANGED <<population, input, best_n, best_pareto, recorded,
                   cachedVars, selectVars, parVars, driverVars, reproVars>>

NextOffspring == CallGenOrTraced

SpecOffspring == InitOffspring /\ [][NextOffspring]_vars

\* C29: gen_or on a population of at least 2 members returns exactly n
\* offspring and leaves pop unchanged; each offspring comes from exactly
\* one of crossover, mutation or cloning; with cxpb = 0 and mutpb = 0
\* every offspring is a verbatim clone of a member of pop with that
\* member's cached fitness, and every offspring produced by crossover or
\* mutation has an empty cache.
C29_GenOrOffspring ==
    (input.fn = "gen_or" /\ output.done /\ Len(input.pop) >= 2) =>
        /\ ~output.panic
        /\ Len(output.vec) = input.n_offspring
        /\ population = input.pop
        /\ \A k \in 1..Len(output.vec) :
              /\ output.vec[k].by \in {"crossover", "mutation", "clone"}
              /\ output.vec[k].by = "clone" =>
                    \E p \in 1..Len(input.pop) :
                        output.vec[k].child = input.pop[p]
              /\ output.vec[k].by # "clone" =>
                    output.vec[k].child.fitness = None
              /\ (input.cxpb = 0 /\ input.mutpb = 0) =>
                    output.vec[k].by = "clone"
        /\ [k \in 1..Len(output.vec) |-> output.vec[k].child]
              \in {o.vec : o \in GenOr(input.pop, input.n_offspring,
                                       input.cxpb, input.mutpb)}

\* gen_or has returned a clone that carries a cached fitness next to an
\* offspring with an empty cache
C29_Witness ==
    /\ input.fn = "gen_or"
    /\ output.done
    /\ Len(input.pop) >= 2
    /\ \E k \in 1..Len(output.vec) :
          /\ output.vec[k].by = "clone"
          /\ IsSome(output.vec[k].child.fitness)
    /\ \E k \in 1..Len(output.vec) : output.vec[k].by # "clone"

\* ----------------------------------- where fitness is computed (C30)
\* the populations a step of algorithm a hands to its selector: Simple
\* selects from the population as the driver left it, the others from what
\* their own par_evaluate returns
StepReads(a, pop) ==
    LET bred(n) == {o.vec : o \in {x \in GenOr(pop, n, a.cxpb, a.mutpb) :
                                      ~x.panic}}
    IN  CASE a.kind = "Simple" -> {pop}
          [] a.kind = "MuPlusLambda" ->
                {ParEvaluate(pop \o off) : off \in bred(a.lambda)}
          [] a.kind = "MuCommaLambda" ->
                {ParEvaluate(off) : off \in bred(a.lambda)}
          [] a.kind = "NSGA2" ->
                {ParEvaluate(pop \o off) : off \in bred(a.pop_size)}
          [] OTHER -> {}

====
